---- MODULE Spec2Model ----
(***************************************************************************)
(* State-machine model of the two device engines of TOSCA:                 *)
(*   - the motion sequence engine of gui/actuator_control.py               *)
(*     (ActuatorControlWidget: program edits, run/stop, the 100 ms tick,   *)
(*     program save/load);                                                 *)
(*   - the frame acquisition engine of hardware/vmpy_camera.py             *)
(*     (VMPyCameraController: start/stop stream, the driver's frame        *)
(*     callback, the latest-frame slot, single-shot capture).              *)
(* Specifications: SpecSequence (run engine), SpecProgram (program         *)
(* document), SpecCamera (frame engine).                                   *)
(***************************************************************************)
EXTENDS Integers, Sequences, FiniteSets, TLC

(***************************************************************************)
(* Bounds of the model                                                     *)
(***************************************************************************)
\* longest program the user builds
MaxSteps == 3
\* largest loop count the user selects in loop_count_spin (range 1..100)
MaxLoop == 2
\* buffers of the streaming pool (DEFAULT_BUFFER_COUNT in the program)
BufferCount == 2
\* frames the sensor delivers in one behaviour
MaxFrames == 2

\* stream threads a CameraController starts
MaxThreads == 2

VARIABLES
    \* ---- ActuatorControlWidget fields (actuator_control.py:43-51) ----
    controller,          \* self.controller is not None
    axis,                \* self.axis is not None
    is_connected,        \* self.is_connected
    current_sequence,    \* self.current_sequence: sequence of StepAction
    disk,                \* the document in the file save_sequence wrote, or NoFile
    loop_enabled,        \* self.loop_enabled
    loop_count,          \* self.loop_count
    running,             \* self.running
    loop_check,          \* loop_check.isChecked()
    loop_count_spin,     \* loop_count_spin.value()
    execute_timer,       \* self.execute_timer exists and is active
    current_step_index,  \* self.current_step_index
    current_loop,        \* self.current_loop
    crashed,             \* an exception left a Qt slot unhandled
    \* ---- observation of the run (events seen by the motion event sink) ----
    log,                 \* indices of the steps executed since the run was requested
    clean,               \* no failure, stop, disconnect or edit since the run was requested
    stopped,             \* stop_sequence was invoked since the run was requested
    failed,              \* index of the step whose command failed in this run, or -1
    fail_reports,        \* failure dialogs shown since the run was requested
    dropped,             \* the actuator session was closed during the run in progress
    estop,               \* MainWindow._on_emergency_stop: "idle", or "dialog" while its message box is open
    saved_program,       \* program held by the widget when the file was written
    loaded,              \* the last operation was a load of the file written
    \* ---- VMPyCameraController fields (vmpy_camera.py:65-74) ----
    vmb,                 \* self.vmb is not None
    camera,              \* self.camera is not None
    is_running,          \* self.is_running
    current_frame,       \* self.current_frame: NoFrame, a view on a buffer, or a snapshot
    \* ---- the driver (VmbPy) ----
    acquiring,           \* the device streams: start_streaming done, not stopped
    buf_state,           \* per pool buffer: "unused", "queued", "inflight", "revoked"
    buf_data,            \* per pool buffer: the frame number its memory holds
    next_frame,          \* frames delivered so far
    \* ---- the frame callback running on the driver's thread ----
    cb_pc,               \* position of the driver thread in _frame_handler
    cb_buf,              \* the buffer (frame) passed to the running callback
    cb_status,           \* its fill status
    cb_image,            \* local opencv_frame
    queue_calls,         \* cam.queue_frame calls made by the current/last callback
    requeue_result,      \* how that call ended: "none", "ok", "VmbCameraError", "Exception"
    cb_raised,           \* the exception that propagated out of a callback, or "none"
    last_stored,         \* number of the frame a callback stored last, 0: slot empty
    \* ---- the GUI thread ----
    main_pc,             \* position of the GUI thread inside start_stream/stop_stream/release
    main_op,             \* the operation that called stop_stream: "stop_stream", "release"
    capture,             \* the last capture_frame: was a stream active, was get_frame issued
    call,                \* the engine method the GUI thread called in the last step
    \* ---- constructor arguments of the controller (vmpy_camera.py:65-69) ----
    camera_id,           \* self.camera_id: a device id, or "None"
    pixel_format,        \* self.pixel_format
    access_mode,         \* self.access_mode
    \* ---- the devices ----
    opened,              \* the device self.camera refers to, or "None"
    dev_format,          \* per device: its active pixel format
    dev_feature,         \* per device: the value its firmware holds for each feature
    \* ---- CameraDisplayWidget (camera_display.py:58-84) ----
    camera_controller,   \* self.camera_controller is not None
    connect_report,      \* how the last on_connect_camera ended
    ui,                  \* the feature controls: sliders, inputs, checkboxes, status label
    \* ---- ActuatorController fields (actuator_controller.py:36-43) ----
    port,                \* self.port: a serial port name, or "None"
    connection,          \* self.connection: "None", or a serial.Serial "open" / "closed"
    connected,           \* self.connected
    current_position,    \* self.current_position: a position, or "None"
    is_moving,           \* self.is_moving
    \* ---- the threads inside ActuatorController, and the actuator ----
    motion,              \* the thread in move_to/home, the thread in stop()
    actuator,            \* the actuator: where it is, whether it moves, where to
    \* ---- image_processing CameraController (camera.py:24-40) and its threads ----
    webcam               \* camera, is_running, stream_thread, current_frame; the
                         \* caller's position; each _stream_function thread's position

seqVars == <<controller, axis, is_connected, current_sequence, disk,
             loop_enabled, loop_count, running, loop_check, loop_count_spin,
             execute_timer, current_step_index, current_loop, crashed,
             log, clean, stopped, failed, fail_reports, dropped, estop,
             saved_program, loaded>>

camVars == <<vmb, camera, is_running, current_frame, last_stored, acquiring, buf_state, buf_data,
             next_frame, cb_pc, cb_buf, cb_status, cb_image, queue_calls,
             requeue_result, cb_raised, main_pc, main_op, capture>>

ctorVars == <<camera_id, pixel_format, access_mode>>
deviceVars == <<dev_format, dev_feature>>
guiVars == <<camera_controller, connect_report, ui>>

\* configuration of the controller, the devices, the camera widget
cfgVars == <<ctorVars, opened, deviceVars, guiVars>>

motionVars == <<motion, actuator>>

actVars == <<port, connection, connected, current_position, is_moving, motionVars>>

vars == <<seqVars, camVars, call, cfgVars, actVars, webcam>>

(***************************************************************************)
(* Motion steps and the program document                                   *)
(***************************************************************************)
ActionType == {"MOVE_ABSOLUTE", "MOVE_RELATIVE", "HOME", "PAUSE", "SET_SPEED", "SCAN"}

\* StepAction(action_type, params) as add_step builds it; numbers in tenths
StepAction(action_type, params) == [action_type |-> action_type, params |-> params]

\* the steps add_step can build from the input widgets, one sample per branch
AllSteps ==
    { StepAction("MOVE_ABSOLUTE", [position |-> 100, speed |-> 10, unit |-> "mm"]),
      StepAction("MOVE_ABSOLUTE", [position |-> 0, speed |-> 10, unit |-> "mm"]),
      StepAction("MOVE_RELATIVE", [distance |-> 5, speed |-> 10, unit |-> "mm"]),
      StepAction("HOME", [speed |-> 10]),
      StepAction("PAUSE", [duration |-> 2]),
      StepAction("SET_SPEED", [speed |-> 20, unit |-> "mm"]),
      StepAction("SCAN", [speed |-> 10, direction |-> "positive", duration |-> 10, unit |-> "mm"]) }

\* the steps of the program of the run examples: MoveAbsolute(10), Pause(0.2)
RunSteps ==
    { StepAction("MOVE_ABSOLUTE", [position |-> 100, speed |-> 10, unit |-> "mm"]),
      StepAction("PAUSE", [duration |-> 2]) }

\* ActionType.<member>.value, the text shown in action_combo
ActionTypeValue(at) ==
    CASE at = "MOVE_ABSOLUTE" -> "Move Absolute"
      [] at = "MOVE_RELATIVE" -> "Move Relative"
      [] at = "HOME" -> "Home"
      [] at = "PAUSE" -> "Pause"
      [] at = "SET_SPEED" -> "Set Speed"
      [] at = "SCAN" -> "Scan"

\* StepAction.to_dict: the document entry {type, params}
to_dict(step) == [type |-> ActionTypeValue(step.action_type), params |-> step.params]

\* StepAction.from_dict: the step of a document entry
from_dict(d) ==
    StepAction(CHOOSE at \in ActionType : ActionTypeValue(at) = d.type, d.params)

\* [step.to_dict() for step in self.current_sequence]
ToEntries(steps) == [i \in 1..Len(steps) |-> to_dict(steps[i])]

\* StepAction.from_dict(step_data) for each entry of the document, in order
FromEntries(entries) == [i \in 1..Len(entries) |-> from_dict(entries[i])]

\* no file written yet
NoFile == [sequence |-> <<>>, loop_enabled |-> FALSE, loop_count |-> 0]

\* the document save_sequence dumps
sequence_data == [sequence |-> ToEntries(current_sequence),
                  loop_enabled |-> loop_check,
                  loop_count |-> loop_count_spin]

\* documents found on disk by load_sequence during a run
DocPool ==
    { [sequence |-> <<>>, loop_enabled |-> FALSE, loop_count |-> 1] } \cup
    { [sequence |-> ToEntries(<<a>>), loop_enabled |-> TRUE, loop_count |-> MaxLoop] :
        a \in RunSteps }

\* QSpinBox.setValue clamps to the range set at actuator_control.py:267
SpinMin == 1
SpinMax == 100
SpinClamp(v) == IF v < SpinMin THEN SpinMin ELSE IF v > SpinMax THEN SpinMax ELSE v

(***************************************************************************)
(* Initial state: ActuatorControlWidget.__init__                           *)
(***************************************************************************)
SeqInit ==
    /\ controller = FALSE
    /\ axis = FALSE
    /\ is_connected = FALSE
    /\ current_sequence = <<>>
    /\ disk = NoFile
    /\ loop_enabled = FALSE
    /\ loop_count = 1
    /\ running = FALSE
    /\ loop_check = FALSE
    /\ loop_count_spin = 1
    /\ execute_timer = FALSE
    /\ current_step_index = 0
    /\ current_loop = 0
    /\ crashed = FALSE
    /\ log = <<>>
    /\ clean = FALSE
    /\ stopped = FALSE
    /\ failed = -1
    /\ fail_reports = 0
    /\ dropped = FALSE
    /\ estop = "idle"
    /\ saved_program = [sequence |-> <<>>, loop_enabled |-> FALSE, loop_count |-> 1]
    /\ loaded = FALSE

runVars == <<loop_enabled, loop_count, running, execute_timer,
             current_step_index, current_loop, log, stopped, failed,
             fail_reports>>
connVars == <<controller, axis, is_connected>>
loopWidgets == <<loop_check, loop_count_spin>>
fileVars == <<disk, saved_program>>


(***************************************************************************)
(* Button states set by _update_ui_state: a handler is reachable from the  *)
(* user only while its button is enabled                                   *)
(***************************************************************************)
\* the application is still running: no exception has left a slot unhandled
Alive == ~crashed

\* no modal message box is open: the widgets take the user's input
Interactive == estop = "idle"

has_sequence == Len(current_sequence) > 0
run_seq_btn == is_connected /\ axis /\ has_sequence
add_step_btn == is_connected
delete_step_btn == has_sequence
clear_seq_btn == has_sequence
move_up_btn == has_sequence
move_down_btn == has_sequence
save_seq_btn == has_sequence
stop_seq_btn == running
loop_check_enabled == has_sequence

\* the row selected in the list widget, as currentRow() reports it
Rows == 0 .. (Len(current_sequence) - 1)

Swap(s, i, j) == [s EXCEPT ![i] = s[j], ![j] = s[i]]
RemoveAt(s, i) == [k \in 1..(Len(s) - 1) |-> IF k < i THEN s[k] ELSE s[k + 1]]

\* a change of the program is an edit of the run in progress and ends a round trip
Edited == /\ clean' = FALSE
          /\ loaded' = FALSE

(***************************************************************************)
(* connect_disconnect                                                      *)
(***************************************************************************)
\* the body of connect_disconnect; ok: the driver calls of the branch taken return
ToggleSession(ok) ==
    /\ IF is_connected
       THEN \* controller.stop() raised: the handles are kept
            IF controller /\ ~ok
            THEN UNCHANGED connVars
            ELSE /\ controller' = FALSE
                 /\ axis' = FALSE
                 /\ is_connected' = FALSE
       ELSE \* Xeryon(port), addAxis, start, setSpeed: all succeed or the except
            \* branch resets the three fields
            /\ controller' = ok
            /\ axis' = ok
            /\ is_connected' = ok
    /\ clean' = (clean /\ ~is_connected)
    /\ dropped' = (dropped \/ (running /\ is_connected /\ ~is_connected'))
    /\ UNCHANGED <<current_sequence, loopWidgets, runVars, fileVars, crashed, loaded>>

\* the Connect/Disconnect button
connect_disconnect(ok) ==
    /\ Alive /\ Interactive
    /\ UNCHANGED <<camVars, call, cfgVars, actVars, webcam, estop>>
    /\ ToggleSession(ok)

(***************************************************************************)
(* MainWindow: the EMERGENCY STOP button                                   *)
(***************************************************************************)
\* _on_emergency_stop up to its QMessageBox.critical: the box is modal and runs
\* an event loop of its own, in which the timers of the application fire
_on_emergency_stop ==
    /\ Alive /\ Interactive
    /\ estop' = "dialog"
    /\ UNCHANGED <<connVars, current_sequence, loopWidgets, runVars, dropped, fileVars,
                   crashed, loaded, clean>>
    /\ UNCHANGED <<camVars, call, cfgVars, actVars, webcam>>

\* the box is closed: _shutdown_hardware, then the status updates.  The laser
\* controller is None (main_window.py:281); the actuator is disconnected through
\* the widget when it is connected; no camera controller is held by the display
\* widget.  ok: controller.stop() returns
_shutdown_hardware(ok) ==
    /\ Alive
    /\ estop = "dialog"
    /\ estop' = "idle"
    /\ IF is_connected
       THEN ToggleSession(ok)
       ELSE UNCHANGED <<connVars, current_sequence, loopWidgets, runVars, dropped,
                        fileVars, crashed, loaded, clean>>
    /\ UNCHANGED <<camVars, call, cfgVars, actVars, webcam>>

(***************************************************************************)
(* Manual STOP button                                                      *)
(***************************************************************************)
\* controller.stopMovements() returns or raises: no field changes either way
stop ==
    /\ Alive /\ Interactive
    /\ UNCHANGED <<camVars, call, cfgVars, actVars, webcam, estop>>
    /\ is_connected /\ controller
    /\ clean' = FALSE
    /\ UNCHANGED <<connVars, current_sequence, loopWidgets, runVars, dropped, fileVars,
                   crashed, loaded>>

(***************************************************************************)
(* Sequence builder                                                        *)
(***************************************************************************)
add_step(step) ==
    /\ Alive /\ Interactive
    /\ UNCHANGED <<camVars, call, cfgVars, actVars, webcam, estop>>
    /\ add_step_btn
    /\ Len(current_sequence) < MaxSteps
    /\ current_sequence' = Append(current_sequence, step)
    /\ Edited
    /\ UNCHANGED <<connVars, loopWidgets, runVars, dropped, fileVars, crashed>>

delete_step(current_row) ==
    /\ Alive /\ Interactive
    /\ UNCHANGED <<camVars, call, cfgVars, actVars, webcam, estop>>
    /\ delete_step_btn
    /\ IF current_row >= 0 /\ current_row < Len(current_sequence)
       THEN /\ current_sequence' = RemoveAt(current_sequence, current_row + 1)
            /\ Edited
       ELSE UNCHANGED <<current_sequence, clean, loaded>>
    /\ UNCHANGED <<connVars, loopWidgets, runVars, dropped, fileVars, crashed>>

clear_sequence ==
    /\ Alive /\ Interactive
    /\ UNCHANGED <<camVars, call, cfgVars, actVars, webcam, estop>>
    /\ clear_seq_btn
    /\ current_sequence' = <<>>
    /\ Edited
    /\ UNCHANGED <<connVars, loopWidgets, runVars, dropped, fileVars, crashed>>

move_step_up(current_row) ==
    /\ Alive /\ Interactive
    /\ UNCHANGED <<camVars, call, cfgVars, actVars, webcam, estop>>
    /\ move_up_btn
    /\ IF current_row > 0
       THEN /\ current_sequence' = Swap(current_sequence, current_row + 1, current_row)
            /\ Edited
       ELSE UNCHANGED <<current_sequence, clean, loaded>>
    /\ UNCHANGED <<connVars, loopWidgets, runVars, dropped, fileVars, crashed>>

move_step_down(current_row) ==
    /\ Alive /\ Interactive
    /\ UNCHANGED <<camVars, call, cfgVars, actVars, webcam, estop>>
    /\ move_down_btn
    /\ IF current_row >= 0 /\ current_row < Len(current_sequence) - 1
       THEN /\ current_sequence' = Swap(current_sequence, current_row + 1, current_row + 2)
            /\ Edited
       ELSE UNCHANGED <<current_sequence, clean, loaded>>
    /\ UNCHANGED <<connVars, loopWidgets, runVars, dropped, fileVars, crashed>>

\* the user ticks or clears "Loop Sequence"
toggle_loop_check ==
    /\ Alive /\ Interactive
    /\ UNCHANGED <<camVars, call, cfgVars, actVars, webcam, estop>>
    /\ loop_check_enabled
    /\ loop_check' = ~loop_check
    /\ loaded' = FALSE
    /\ UNCHANGED <<connVars, current_sequence, loop_count_spin, runVars, dropped, fileVars,
                   crashed, clean>>

\* the user sets the loop count
set_loop_count_spin(v) ==
    /\ Alive /\ Interactive
    /\ UNCHANGED <<camVars, call, cfgVars, actVars, webcam, estop>>
    /\ has_sequence
    /\ v # loop_count_spin
    /\ loop_count_spin' = SpinClamp(v)
    /\ loaded' = FALSE
    /\ UNCHANGED <<connVars, current_sequence, loop_check, runVars, dropped, fileVars,
                   crashed, clean>>

(***************************************************************************)
(* run_sequence, the tick _execute_sequence_step, stop_sequence            *)
(***************************************************************************)
run_sequence ==
    /\ Alive /\ Interactive
    /\ UNCHANGED <<camVars, call, cfgVars, actVars, webcam, estop>>
    /\ run_seq_btn
    \* if not self.is_connected or not self.axis or not self.current_sequence: return
    /\ is_connected /\ axis /\ current_sequence # <<>>
    /\ loop_enabled' = loop_check
    /\ loop_count' = (IF loop_check THEN loop_count_spin ELSE 1)
    /\ running' = TRUE
    \* a new QTimer replaces (and so destroys) the one of an earlier run
    /\ execute_timer' = TRUE
    /\ current_step_index' = 0
    /\ current_loop' = 0
    /\ log' = <<>>
    /\ clean' = TRUE
    /\ stopped' = FALSE
    /\ failed' = -1
    /\ fail_reports' = 0
    /\ dropped' = FALSE
    /\ loaded' = FALSE
    /\ UNCHANGED <<connVars, current_sequence, loopWidgets, fileVars, crashed>>

\* a tick that reads the spin box where it should read the count taken at the
\* request
LoopsCompleted_ReadsSpin(loop) == loop >= loop_count_spin

\* a tick that lets one pass too many through
LoopsCompleted_OffByOne(loop) == loop > loop_count

\* if self.current_loop >= self.loop_count
LoopsCompleted(loop) == loop >= loop_count

\* an end of run that clears the flag and leaves the timer active
EndRun_KeepsTimer ==
    /\ execute_timer' = execute_timer
    /\ running' = FALSE

\* execute_timer.stop(); self.running = False; return
EndRun ==
    /\ execute_timer' = FALSE
    /\ running' = FALSE

\* a failure handler that reports the failure and lets the run go on
StepFailure_KeepsRunning(index) ==
    /\ failed' = index
    /\ fail_reports' = fail_reports + 1
    /\ clean' = FALSE
    /\ current_step_index' = index + 1
    /\ UNCHANGED <<running, execute_timer>>

\* the except branch of the tick: the step's command raised
StepFailure(index) ==
    /\ execute_timer' = FALSE
    /\ running' = FALSE
    /\ failed' = index
    /\ fail_reports' = fail_reports + 1
    /\ clean' = FALSE
    /\ UNCHANGED current_step_index

\* one timeout of execute_timer; ok: _execute_step(step) returns (or raises)
_execute_sequence_step(ok) ==
    /\ Alive
    /\ UNCHANGED <<camVars, call, cfgVars, actVars, webcam, estop>>
    /\ execute_timer
    /\ UNCHANGED <<connVars, current_sequence, loopWidgets, fileVars, loaded,
                   loop_enabled, loop_count, stopped>>
    /\ IF ~running \/ ~is_connected
       THEN /\ EndRun
            /\ UNCHANGED <<current_step_index, current_loop, log, failed,
                           fail_reports, clean, crashed>>
       ELSE IF LoopsCompleted(current_loop)
       THEN /\ EndRun
            /\ UNCHANGED <<current_step_index, current_loop, log, failed,
                           fail_reports, clean, crashed>>
       ELSE LET wrap == current_step_index >= Len(current_sequence)
                loop1 == IF wrap THEN current_loop + 1 ELSE current_loop
                index1 == IF wrap THEN 0 ELSE current_step_index
            IN  /\ current_loop' = loop1
                /\ IF wrap /\ LoopsCompleted(loop1)
                   THEN /\ EndRun
                        /\ current_step_index' = index1
                        /\ UNCHANGED <<log, failed, fail_reports, clean, crashed>>
                   ELSE IF index1 >= Len(current_sequence)
                   THEN \* current_sequence[0] of an empty program: IndexError
                        \* outside the try block, unhandled in the slot
                        /\ crashed' = TRUE
                        /\ current_step_index' = index1
                        /\ clean' = FALSE
                        /\ UNCHANGED <<running, execute_timer, log, failed, fail_reports>>
                   ELSE /\ log' = Append(log, index1)
                        /\ UNCHANGED crashed
                        /\ IF ok
                           THEN /\ current_step_index' = index1 + 1
                                /\ UNCHANGED <<running, execute_timer, failed,
                                               fail_reports, clean>>
                           ELSE StepFailure(index1)
    /\ dropped' = (dropped /\ running')

\* ok: controller.stopMovements() returns (or raises)
stop_sequence(ok) ==
    /\ Alive /\ Interactive
    /\ UNCHANGED <<camVars, call, cfgVars, actVars, webcam, estop>>
    /\ stop_seq_btn
    /\ IF running
       THEN /\ execute_timer' = FALSE
            /\ running' = (IF controller /\ ~ok THEN running ELSE FALSE)
            /\ stopped' = TRUE
            /\ clean' = FALSE
       ELSE UNCHANGED <<execute_timer, running, stopped, clean>>
    /\ dropped' = (dropped /\ running')
    /\ UNCHANGED <<connVars, current_sequence, loopWidgets, fileVars, loaded, crashed,
                   loop_enabled, loop_count, current_step_index, current_loop,
                   log, failed, fail_reports>>

(***************************************************************************)
(* Program document: save_sequence, load_sequence                          *)
(***************************************************************************)
\* written: the dialog returned a path and json.dump succeeded
save_sequence(written) ==
    /\ Alive /\ Interactive
    /\ UNCHANGED <<camVars, call, cfgVars, actVars, webcam, estop>>
    /\ save_seq_btn
    /\ current_sequence # <<>>
    /\ IF written
       THEN /\ disk' = sequence_data
            /\ saved_program' = [sequence |-> current_sequence,
                                 loop_enabled |-> loop_check,
                                 loop_count |-> loop_count_spin]
            /\ loaded' = FALSE
       ELSE UNCHANGED <<disk, saved_program, loaded>>
    /\ UNCHANGED <<connVars, current_sequence, loopWidgets, runVars, dropped, crashed, clean>>

\* a load that appends to the program in place instead of clearing it first
LoadSteps_NoClear(before, d) == before \o FromEntries(d.sequence)

\* the program after clear_sequence() and the append loop over the entries
LoadSteps(before, d) == FromEntries(d.sequence)

\* how a load can fail: open() raises; json.load raises; the document is not
\* a JSON object (sequence_data.get raises); an entry of "sequence" is not a
\* step (StepAction.from_dict raises); "loop_count" is not an integer
\* (QSpinBox.setValue raises)
LoadFaults == {"open", "json", "document", "entry", "loop_count"}

\* d: the document json.load returns for the chosen file; fault: "none", or
\* the point at which the load raises (for "entry": at an entry that follows
\* the entries of d).  The except branch reports the error and restores
\* nothing.
load_sequence(d, fault) ==
    /\ Alive /\ Interactive
    /\ UNCHANGED <<camVars, call, cfgVars, actVars, webcam, estop>>
    /\ IF fault \in {"open", "json"}
       THEN UNCHANGED <<current_sequence, loopWidgets, clean, loaded>>
       ELSE /\ current_sequence' = (IF fault = "document" THEN <<>>
                                    ELSE LoadSteps(current_sequence, d))
            /\ loop_check' = (IF fault \in {"document", "entry"} THEN loop_check
                              ELSE d.loop_enabled)
            /\ loop_count_spin' = (IF fault = "none" THEN SpinClamp(d.loop_count)
                                   ELSE loop_count_spin)
            /\ clean' = FALSE
            /\ loaded' = (fault = "none" /\ d # NoFile /\ d = disk)
    /\ UNCHANGED <<connVars, runVars, dropped, disk, saved_program, crashed>>

(***************************************************************************)
(* Frame acquisition engine: VMPyCameraController and the VmbPy driver     *)
(***************************************************************************)
Buffers == 1..BufferCount

FrameStatus == {"Complete", "Incomplete", "Error"}

NoFrame == [kind |-> "none"]

\* Frame.as_opencv_image(): a numpy array over the frame's own buffer memory
as_opencv_image(b) == [kind |-> "view", buf |-> b]

\* an array that owns its pixels (frame number n)
Snapshot(n) == [kind |-> "owned", data |-> n]

\* buffers of an earlier stream are never filled again: a view on one is
\* detached from the pool that the next start_streaming allocates
Detach(f) == IF f.kind = "view" THEN Snapshot(buf_data[f.buf]) ELSE f

NoCapture == [streaming |-> FALSE, get_frame |-> FALSE]

\* ---- calls of the engine's methods by the GUI thread ----
NoCall == [op |-> "none"]

\* op: the method; result: what it returns ("True", "False", "None", a value
\* kind, or "pending" while it has not returned); device: it called the driver
Call(op, result, device) == [op |-> op, result |-> result, device |-> device]

\* ---- the devices the driver can enumerate ----
Devices == {"DEV_A", "DEV_B"}

\* cam.get_pixel_formats() of each device, in the order the device lists them
Advertised(dev) ==
    IF dev = "DEV_A" THEN <<"BayerRG8", "Bgr8">> ELSE <<"BayerRG8">>

\* the format a device streams in until one is set
FactoryFormat == "BayerRG8"

\* fmt.name in ('Bgr8', 'Mono8')
DisplayCompatible == {"Bgr8", "Mono8"}

Range(seq) == {seq[i] : i \in 1..Len(seq)}

Features == {"ExposureTime", "Gain", "ExposureAuto", "GainAuto"}

\* values a feature can hold: ExposureTime in microseconds, Gain in hundredths
\* of a dB, the auto modes as their enumeration entries
FeatureValues(f) ==
    CASE f = "ExposureTime" -> {20000, 30000}
      [] f = "Gain" -> {0, 496, 500}
      [] f \in {"ExposureAuto", "GainAuto"} -> {"Off", "Continuous"}

FactoryFeatures ==
    [f \in Features |-> CASE f = "ExposureTime" -> 20000
                           [] f = "Gain" -> 0
                           [] f \in {"ExposureAuto", "GainAuto"} -> "Off"]

NoReport == [done |-> FALSE]

\* the feature controls as _init_ui leaves them: exposure in microseconds,
\* the gain slider in tenths of a dB
InitialControls ==
    [exposure_slider |-> 20000, exposure_input |-> 20000,
     gain_slider |-> 0, gain_input |-> 0,
     exposure_auto_checkbox |-> FALSE, gain_auto_checkbox |-> FALSE,
     status_label |-> "Ready"]

CamInit ==
    /\ vmb = TRUE
    /\ camera = FALSE
    /\ is_running = FALSE
    /\ current_frame = NoFrame
    /\ last_stored = 0
    /\ acquiring = FALSE
    /\ buf_state = [b \in Buffers |-> "unused"]
    /\ buf_data = [b \in Buffers |-> 0]
    /\ next_frame = 0
    /\ cb_pc = "idle"
    /\ cb_buf = 0
    /\ cb_status = "Complete"
    /\ cb_image = NoFrame
    /\ queue_calls = 0
    /\ requeue_result = "none"
    /\ cb_raised = "none"
    /\ main_pc = "idle"
    /\ main_op = "none"
    /\ capture = NoCapture
    /\ call = NoCall
    /\ camera_id = "None"
    /\ pixel_format = "Mono8"
    /\ access_mode = "Full"
    /\ opened = "None"
    /\ dev_format = [d \in Devices |-> FactoryFormat]
    /\ dev_feature = [d \in Devices |-> FactoryFeatures]
    /\ camera_controller = FALSE
    /\ connect_report = NoReport
    /\ ui = InitialControls

drvVars == <<acquiring, buf_state, buf_data, next_frame>>
cbVars == <<cb_pc, cb_buf, cb_status, cb_image, queue_calls, requeue_result, cb_raised>>
mainVars == <<main_pc, main_op>>

\* ---- the driver's side of cam.start_streaming / cam.stop_streaming ----
\* start_streaming(handler, buffer_count): allocate and queue the pool, acquire
DriverStart ==
    /\ acquiring' = TRUE
    /\ buf_state' = [b \in Buffers |-> "queued"]
    /\ buf_data' = [b \in Buffers |-> 0]
    /\ current_frame' = Detach(current_frame)
    /\ last_stored' = last_stored

\* stop_streaming(): end acquisition and revoke every buffer
DriverStop ==
    /\ acquiring' = FALSE
    /\ buf_state' = [b \in Buffers |-> IF buf_state[b] = "unused" THEN "unused" ELSE "revoked"]

(***************************************************************************)
(* initialize, release                                                     *)
(***************************************************************************)
\* the call record of initialize: the cameras enumerated and the fault injected
InitCall(result, device, cams, fault) ==
    [op |-> "initialize", result |-> result, device |-> device,
     cams |-> cams, fault |-> fault]

\* found_cam: the enumerated camera whose id is camera_id; available_cameras[0]
\* when camera_id is None and also ("Falling back to first available camera")
\* when no id matches
found_cam(id, cams) ==
    IF id # "None" /\ id \in Range(cams) THEN id ELSE cams[1]

\* the body of initialize behind its two guards, for a controller built with
\* camera id `id` and pixel format `pf`: ok (it returns True), cleanup (an
\* except branch ran _cleanup), dev (the device self.camera refers to), set
\* (cam.set_pixel_format(pf) succeeded), pixel_format (self.pixel_format after)
Open(id, pf, cams, fault) ==
    IF fault = "enumerate" \/ (cams # <<>> /\ fault = "open")
    THEN \* except ...: self._cleanup(); return False
         [ok |-> FALSE, cleanup |-> TRUE, dev |-> "None", set |-> FALSE, pixel_format |-> pf]
    ELSE IF cams = <<>>
    THEN \* No cameras detected: return False
         [ok |-> FALSE, cleanup |-> FALSE, dev |-> "None", set |-> FALSE, pixel_format |-> pf]
    ELSE LET dev == found_cam(id, cams)
         IN  \* cam.set_pixel_format(self.pixel_format); when it raises:
             \* self.pixel_format = cam.get_pixel_format()
             IF pf \in Range(Advertised(dev))
             THEN [ok |-> TRUE, cleanup |-> FALSE, dev |-> dev, set |-> TRUE,
                   pixel_format |-> pf]
             ELSE [ok |-> TRUE, cleanup |-> FALSE, dev |-> dev, set |-> FALSE,
                   pixel_format |-> dev_format[dev]]

\* an initialize whose except branches return False without _cleanup
CameraAfter_NoCleanup(o, cams, fault) == cams # <<>> /\ fault # "enumerate"

\* self.camera when initialize returns: found_cam once self.camera = found_cam
\* was reached, None again when an except branch ran _cleanup
CameraAfter(o, cams, fault) == (cams # <<>> /\ fault # "enumerate") /\ ~o.cleanup

\* the device side of a successful set_pixel_format
SetFormat(o) ==
    IF o.set THEN [dev_format EXCEPT ![o.dev] = o.pixel_format] ELSE dev_format

\* cams: what vmb.get_all_cameras() returns; fault: "none", "enumerate"
\* (get_all_cameras raises), "access_mode" (set_access_mode raises), "open"
\* (entering the camera context, or a later call inside it, raises)
initialize(cams, fault) ==
    /\ main_pc = "idle"
    /\ IF ~vmb
       THEN \* VmbSystem instance not available
            /\ call' = InitCall("False", FALSE, cams, fault)
            /\ UNCHANGED <<vmb, camera, opened, pixel_format, dev_format>>
       ELSE IF camera
       THEN \* Camera already initialized
            /\ call' = InitCall("True", FALSE, cams, fault)
            /\ UNCHANGED <<vmb, camera, opened, pixel_format, dev_format>>
       ELSE LET o == Open(camera_id, pixel_format, cams, fault)
            IN  /\ camera' = CameraAfter(o, cams, fault)
                /\ vmb' = ~o.cleanup
                /\ opened' = o.dev
                /\ pixel_format' = o.pixel_format
                /\ dev_format' = SetFormat(o)
                /\ call' = InitCall(IF o.ok THEN "True" ELSE "False", TRUE, cams, fault)
    /\ UNCHANGED <<is_running, current_frame, last_stored, drvVars, cbVars, mainVars, capture>>
    /\ UNCHANGED <<seqVars, actVars, webcam, camera_id, access_mode, dev_feature, guiVars>>

\* the tail of release() after stop_stream() returned
release_drop ==
    /\ main_pc = "release_drop"
    /\ camera' = FALSE
    /\ vmb' = FALSE
    /\ main_pc' = "idle"
    /\ main_op' = "none"
    /\ opened' = "None"
    /\ UNCHANGED <<is_running, current_frame, last_stored, drvVars, cbVars, capture>>
    /\ call' = NoCall
    /\ UNCHANGED <<seqVars, actVars, webcam, ctorVars, deviceVars, guiVars>>

(***************************************************************************)
(* start_stream                                                            *)
(***************************************************************************)
\* a start_stream without its second guard
CameraMissing_Unchecked == FALSE

\* if not self.camera: "Camera not initialized. Cannot start stream."
CameraMissing == ~camera

\* ok: cam.start_streaming returns (it raises when the device already streams)
start_stream(ok) ==
    /\ main_pc = "idle"
    /\ ~is_running
    /\ IF CameraMissing
       THEN /\ call' = Call("start_stream", "False", FALSE)
            /\ UNCHANGED <<is_running, main_pc, drvVars, current_frame, last_stored>>
       ELSE IF ok /\ ~acquiring
       THEN /\ DriverStart
            /\ main_pc' = "start_set_running"
            /\ call' = Call("start_stream", "True", TRUE)
            /\ UNCHANGED <<is_running, next_frame>>
       ELSE /\ is_running' = FALSE
            /\ call' = Call("start_stream", "False", TRUE)
            /\ UNCHANGED <<main_pc, drvVars, current_frame, last_stored>>
    /\ UNCHANGED <<vmb, camera, cbVars, main_op, capture>>
    /\ UNCHANGED <<seqVars, actVars, webcam, cfgVars>>

\* self.is_running = True; return True
start_set_running ==
    /\ main_pc = "start_set_running"
    /\ is_running' = TRUE
    /\ main_pc' = "idle"
    /\ UNCHANGED <<vmb, camera, current_frame, last_stored, drvVars, cbVars, main_op, capture>>
    /\ call' = NoCall
    /\ UNCHANGED <<seqVars, actVars, webcam, cfgVars>>

\* a start_stream that starts over while running: the slot is emptied and the
\* driver is asked again
start_stream_again_Restart ==
    /\ main_pc = "idle"
    /\ is_running
    /\ current_frame' = NoFrame
    /\ last_stored' = 0
    /\ call' = Call("start_stream", "True", TRUE)
    /\ UNCHANGED <<vmb, camera, is_running, drvVars, cbVars, mainVars, capture>>
    /\ UNCHANGED <<seqVars, actVars, webcam, cfgVars>>

\* start_stream while is_running: return True, nothing else
start_stream_again ==
    /\ main_pc = "idle"
    /\ is_running
    /\ call' = Call("start_stream", "True", FALSE)
    /\ UNCHANGED <<camVars, seqVars, actVars, webcam, cfgVars>>

(***************************************************************************)
(* stop_stream and release, as run by the GUI thread                       *)
(***************************************************************************)
\* where the caller of stop_stream continues
AfterStop(op) ==
    CASE op = "release" -> "release_drop"
      [] op = "apply" -> "set_exposure"
      [] OTHER -> "idle"

\* the guards of stop_stream, then self.is_running = False  # Set flag early
StopStreamEnter(op) ==
    IF ~is_running \/ ~camera
    THEN /\ main_pc' = AfterStop(op)
         /\ main_op' = (IF op \in {"release", "apply"} THEN op ELSE "none")
         /\ UNCHANGED is_running
    ELSE /\ is_running' = FALSE
         /\ main_pc' = "stop_streaming"
         /\ main_op' = op

stop_stream ==
    /\ main_pc = "idle"
    /\ StopStreamEnter("stop_stream")
    /\ UNCHANGED <<vmb, camera, current_frame, last_stored, drvVars, cbVars, capture>>
    /\ call' = (IF ~is_running THEN Call("stop_stream", "True", FALSE)
                ELSE IF ~camera THEN Call("stop_stream", "False", FALSE)
                ELSE Call("stop_stream", "pending", TRUE))
    /\ UNCHANGED <<seqVars, actVars, webcam, cfgVars>>

\* a release that never stops the stream
ReleaseStops_Never == FALSE

\* if self.is_running: self.stop_stream()
ReleaseStops == is_running

\* release(): stop_stream() when running, then drop camera and vmb
release ==
    /\ main_pc = "idle"
    /\ IF ReleaseStops
       THEN /\ StopStreamEnter("release")
            /\ UNCHANGED <<camera, vmb, opened>>
       ELSE /\ camera' = FALSE
            /\ vmb' = FALSE
            /\ opened' = "None"
            /\ UNCHANGED <<mainVars, is_running>>
    /\ UNCHANGED <<current_frame, last_stored, drvVars, cbVars, capture>>
    /\ call' = Call("release", "None", is_running /\ camera)
    /\ UNCHANGED <<seqVars, actVars, webcam, ctorVars, deviceVars, guiVars>>

\* cam.stop_streaming() returns once no callback is in flight, or raises
stop_streaming(ok) ==
    /\ main_pc = "stop_streaming"
    /\ IF ok
       THEN /\ cb_pc = "idle"
            /\ DriverStop
       ELSE UNCHANGED <<acquiring, buf_state>>
    /\ main_pc' = "stop_clear"
    /\ UNCHANGED <<vmb, camera, is_running, current_frame, last_stored, buf_data, next_frame,
                   cbVars, main_op, capture>>
    /\ call' = NoCall
    /\ UNCHANGED <<seqVars, actVars, webcam, cfgVars>>

\* finally: with self.frame_lock: self.current_frame = None
stop_clear ==
    /\ main_pc = "stop_clear"
    /\ current_frame' = NoFrame
    /\ last_stored' = 0
    /\ main_pc' = AfterStop(main_op)
    /\ main_op' = (IF main_op \in {"release", "apply"} THEN main_op ELSE "none")
    /\ UNCHANGED <<vmb, camera, is_running, drvVars, cbVars, capture>>
    /\ call' = NoCall
    /\ UNCHANGED <<seqVars, actVars, webcam, cfgVars>>

(***************************************************************************)
(* capture_frame                                                           *)
(***************************************************************************)
\* while is_running the method only logs a warning and goes on to cam.get_frame;
\* got: get_frame returned a frame of status Complete (else a timeout, an
\* error or an incomplete frame: None)
capture_frame(got) ==
    /\ main_pc = "idle"
    /\ IF ~camera
       THEN /\ capture' = [streaming |-> is_running, get_frame |-> FALSE]
            /\ call' = Call("capture_frame", "None", FALSE)
       ELSE /\ capture' = [streaming |-> is_running, get_frame |-> TRUE]
            /\ call' = Call("capture_frame", IF got THEN "frame" ELSE "None", TRUE)
    /\ UNCHANGED <<vmb, camera, is_running, current_frame, last_stored, drvVars, cbVars, mainVars>>
    /\ UNCHANGED <<seqVars, actVars, webcam, cfgVars>>

(***************************************************************************)
(* get_current_frame                                                       *)
(***************************************************************************)
\* ndarray.copy(): an array with pixels of its own, read from the memory the
\* source refers to at the time of the copy
copy(f) == IF f.kind = "view" THEN Snapshot(buf_data[f.buf]) ELSE f

\* with self.frame_lock: None when the slot is None, else current_frame.copy()
get_current_frame ==
    /\ main_pc = "idle"
    /\ call' = (IF current_frame = NoFrame
                THEN [op |-> "get_current_frame", result |-> "None", device |-> FALSE,
                      frame |-> NoFrame]
                ELSE [op |-> "get_current_frame", result |-> "frame", device |-> FALSE,
                      frame |-> copy(current_frame)])
    /\ UNCHANGED <<camVars, seqVars, actVars, webcam, cfgVars>>

(***************************************************************************)
(* The controller's constructor; pixel formats, settings and features      *)
(***************************************************************************)
\* the engine's fields no method of this section changes
engineIdle == <<is_running, current_frame, last_stored, drvVars, cbVars, mainVars, capture>>

\* VMPyCameraController(vmb, camera_id, ..., pixel_format, access_mode): a new
\* controller takes the place of one that holds no camera and runs no stream
VMPyCameraController(id, pf, mode) ==
    /\ main_pc = "idle" /\ cb_pc = "idle"
    /\ ~camera /\ ~is_running /\ ~acquiring
    /\ vmb' = TRUE
    /\ camera' = FALSE
    /\ is_running' = FALSE
    /\ current_frame' = NoFrame
    /\ last_stored' = 0
    /\ camera_id' = id
    /\ pixel_format' = pf
    /\ access_mode' = mode
    /\ call' = Call("__init__", "None", FALSE)
    /\ UNCHANGED <<drvVars, cbVars, mainVars, capture>>
    /\ UNCHANGED <<seqVars, actVars, webcam, opened, deviceVars, guiVars>>

\* str(f): a Python string; it has no attribute `name`
str(f) == [kind |-> "str", text |-> f]

\* [str(f) for f in formats]
FormatStrings(formats) == [i \in 1..Len(formats) |-> str(formats[i])]

\* what get_available_pixel_formats returns; raises: cam.get_pixel_formats() raised
AvailableFormats(has_camera, dev, raises) ==
    IF ~has_camera \/ raises THEN <<>> ELSE FormatStrings(Advertised(dev))

get_available_pixel_formats(raises) ==
    /\ main_pc = "idle"
    /\ call' = [op |-> "get_available_pixel_formats", result |-> "list",
                device |-> camera, list |-> AvailableFormats(camera, opened, raises)]
    /\ UNCHANGED <<vmb, camera, engineIdle>>
    /\ UNCHANGED <<seqVars, actVars, webcam, cfgVars>>

\* raises: cam.save_settings_to_xml(file_path) raised
save_settings(raises) ==
    /\ main_pc = "idle"
    /\ call' = Call("save_settings", IF camera /\ ~raises THEN "True" ELSE "False", camera)
    /\ UNCHANGED <<vmb, camera, engineIdle>>
    /\ UNCHANGED <<seqVars, actVars, webcam, cfgVars>>

\* file: the settings document; raises: cam.load_settings_from_xml raised;
\* pf_raises: the cam.get_pixel_format() that follows raised
load_settings(file, raises, pf_raises) ==
    /\ main_pc = "idle"
    /\ IF ~camera
       THEN /\ call' = Call("load_settings", "False", FALSE)
            /\ UNCHANGED <<pixel_format, deviceVars>>
       ELSE IF raises
       THEN /\ call' = Call("load_settings", "False", TRUE)
            /\ UNCHANGED <<pixel_format, deviceVars>>
       ELSE /\ file.format \in Range(Advertised(opened))
            /\ dev_format' = [dev_format EXCEPT ![opened] = file.format]
            /\ dev_feature' = [dev_feature EXCEPT ![opened] = file.features]
            /\ pixel_format' = (IF pf_raises THEN pixel_format ELSE file.format)
            /\ call' = Call("load_settings", "True", TRUE)
    /\ UNCHANGED <<vmb, camera, engineIdle>>
    /\ UNCHANGED <<seqVars, actVars, webcam, camera_id, access_mode, opened, guiVars>>

\* the record of a feature write: written (feature.set returned), read_back (a
\* feature.get followed it), warned (a value-not-applied warning was raised),
\* reported (what the caller is given back)
FeatureWrite(op, f, requested, result, device, written, read_back, warned, reported) ==
    [op |-> op, feature |-> f, requested |-> requested, result |-> result,
     device |-> device, written |-> written, read_back |-> read_back,
     warned |-> warned, reported |-> reported]

\* the return value True/False of a method, as the caller sees it
Status(b) == [kind |-> "status", v |-> b]

\* a feature value handed to the caller
Value(v) == [kind |-> "value", v |-> v]

\* the firmware's answer to feature.set(value): it holds `actual` afterwards
\* (the value written, a clamped one, or the old one)
FirmwareSet(f, actual) ==
    [dev_feature EXCEPT ![opened] = [dev_feature[opened] EXCEPT ![f] = actual]]

\* raises: get_feature_by_name or feature.get raised
get_feature_value(f, raises) ==
    /\ main_pc = "idle"
    /\ call' = (IF ~camera THEN [op |-> "get_feature_value", feature |-> f,
                                 result |-> "None", device |-> FALSE]
                ELSE IF raises THEN [op |-> "get_feature_value", feature |-> f,
                                     result |-> "None", device |-> TRUE]
                ELSE [op |-> "get_feature_value", feature |-> f, result |-> "value",
                      device |-> TRUE, value |-> dev_feature[opened][f]])
    /\ UNCHANGED <<vmb, camera, engineIdle>>
    /\ UNCHANGED <<seqVars, actVars, webcam, cfgVars>>

\* value: the value requested; actual: what the firmware holds after the
\* write; raises: get_feature_by_name or feature.set raised.  The method
\* returns True as soon as feature.set returns.
set_feature_value(f, value, actual, raises) ==
    /\ main_pc = "idle"
    /\ IF ~camera
       THEN /\ call' = FeatureWrite("set_feature_value", f, value, "False", FALSE,
                                    FALSE, FALSE, FALSE, Status(FALSE))
            /\ UNCHANGED dev_feature
       ELSE IF raises
       THEN /\ call' = FeatureWrite("set_feature_value", f, value, "False", TRUE,
                                    FALSE, FALSE, FALSE, Status(FALSE))
            /\ UNCHANGED dev_feature
       ELSE /\ dev_feature' = FirmwareSet(f, actual)
            /\ call' = FeatureWrite("set_feature_value", f, value, "True", TRUE,
                                    TRUE, FALSE, FALSE, Status(TRUE))
    /\ UNCHANGED <<vmb, camera, engineIdle>>
    /\ UNCHANGED <<seqVars, actVars, webcam, ctorVars, opened, dev_format, guiVars>>

(***************************************************************************)
(* CameraDisplayWidget: connect, disconnect, the feature controls          *)
(***************************************************************************)
\* fmt.name: PixelFormat members have it, Python strings do not (AttributeError)
HasName(fmt) == fmt.kind = "PixelFormat"

\* fmt.name in ('Bgr8', 'Mono8')
IsCompatible(fmt) == fmt.text \in DisplayCompatible

\* how on_connect_camera ends for the list get_available_pixel_formats returned,
\* given that initialize returned True
ConnectOutcome(formats) ==
    IF \E i \in 1..Len(formats) : ~HasName(formats[i])
    THEN \* pixel_format_combo.addItem(fmt.name, fmt) raises: except branch
         "AttributeError"
    ELSE IF SelectSeq(formats, IsCompatible) = <<>>
    THEN \* "No OpenCV-compatible pixel format": on_disconnect_camera()
         "NoCompatibleFormat"
    ELSE "connected"

\* the report of a connect: the device initialize opened, the format requested,
\* the format the controller records at the end, how the handler ended
ConnectReport(dev, preferred, format, outcome) ==
    [done |-> TRUE, dev |-> dev, preferred |-> preferred, format |-> format,
     outcome |-> outcome]

\* id, mode: camera_id_combo / access_mode_combo.currentData(); cams, fault: as
\* for initialize; fmt_raises: cam.get_pixel_formats() raises.  The pixel
\* format combo holds "Auto" (None) or, once cleared, nothing: currentData()
\* is None.
on_connect_camera(id, mode, cams, fault, fmt_raises) ==
    /\ main_pc = "idle" /\ cb_pc = "idle"
    /\ ~camera /\ ~is_running /\ ~acquiring
    \* _populate_camera_list: the combo offers None and the enumerated ids
    /\ id \in {"None"} \cup Range(cams)
    /\ IF camera_controller
       THEN \* "Already connected to camera"
            UNCHANGED <<vmb, camera, ctorVars, opened, dev_format, camera_controller,
                        connect_report>>
       ELSE LET o == Open(id, "None", cams, fault)
                formats == AvailableFormats(o.ok, o.dev, fmt_raises)
                outcome == IF o.ok THEN ConnectOutcome(formats) ELSE "InitializeFailed"
                preferred == IF outcome = "connected"
                             THEN SelectSeq(formats, IsCompatible)[1].text
                             ELSE o.pixel_format
            IN  /\ dev_format' = SetFormat(o)
                /\ camera_id' = id
                /\ access_mode' = mode
                \* if self.camera_controller.pixel_format != preferred: the
                \* field is assigned and initialize() called again, which
                \* returns at "Camera already initialized"
                /\ pixel_format' = preferred
                /\ connect_report' = ConnectReport(o.dev, "None", preferred, outcome)
                /\ IF outcome = "connected"
                   THEN /\ camera_controller' = TRUE
                        /\ camera' = TRUE
                        /\ vmb' = TRUE
                        /\ opened' = o.dev
                   ELSE \* release() (directly or through on_disconnect_camera),
                        \* then self.camera_controller = None
                        /\ camera_controller' = FALSE
                        /\ camera' = FALSE
                        /\ vmb' = FALSE
                        /\ opened' = "None"
    /\ call' = NoCall
    /\ UNCHANGED <<is_running, current_frame, last_stored, drvVars, cbVars, mainVars, capture>>
    /\ UNCHANGED <<seqVars, actVars, webcam, dev_feature, ui>>

\* if self.camera_controller is None: return; else stop_stream(), release()
on_disconnect_camera ==
    /\ main_pc = "idle" /\ cb_pc = "idle"
    /\ IF ~camera_controller
       THEN UNCHANGED <<vmb, camera, is_running, current_frame, last_stored, drvVars, opened,
                        camera_controller>>
       ELSE /\ is_running' = FALSE
            /\ IF is_running /\ camera THEN DriverStop ELSE UNCHANGED <<acquiring, buf_state>>
            /\ current_frame' = (IF is_running /\ camera THEN NoFrame ELSE current_frame)
            /\ last_stored' = (IF is_running /\ camera THEN 0 ELSE last_stored)
            /\ camera' = FALSE
            /\ vmb' = FALSE
            /\ opened' = "None"
            /\ camera_controller' = FALSE
            /\ UNCHANGED <<buf_data, next_frame>>
    /\ call' = NoCall
    /\ UNCHANGED <<cbVars, mainVars, capture>>
    /\ UNCHANGED <<seqVars, actVars, webcam, ctorVars, deviceVars, connect_report, ui>>



\* abs(actual - gain_db) > 0.05, in hundredths of a dB
GainTolerance == 5

\* the status line a handler leaves after set() then get(): a warning when the
\* value read back is not the one written
AfterWrite(differs, warning) == IF differs THEN warning ELSE ui.status_label

\* the auto exposure checkbox toggled to `state`; actual: what the firmware
\* holds after the write; raises: the feature access raised.
\* _apply_camera_setting_with_restart returns at once without a controller;
\* with one it writes, reads back, shows the value read and warns when it
\* differs (the stream is stopped around the write: no widget state has a
\* controller that streams).
on_exposure_auto_changed(state, actual, raises) ==
    /\ main_pc = "idle" /\ cb_pc = "idle"
    /\ ~is_running
    /\ state # ui.exposure_auto_checkbox
    /\ IF ~camera_controller
       THEN /\ ui' = [ui EXCEPT !.exposure_auto_checkbox = state]
            /\ UNCHANGED dev_feature
       ELSE IF raises
       THEN /\ ui' = [ui EXCEPT !.exposure_auto_checkbox = state,
                                !.status_label = "Failed to set Auto Exposure"]
            /\ UNCHANGED dev_feature
       ELSE LET target_state_str == IF state THEN "Continuous" ELSE "Off"
            IN  /\ dev_feature' = FirmwareSet("ExposureAuto", actual)
                /\ ui' = [ui EXCEPT !.exposure_auto_checkbox = (actual # "Off"),
                                    !.status_label =
                                        AfterWrite(actual # target_state_str,
                                                   "Warning: ExposureAuto")]
    /\ call' = NoCall
    /\ UNCHANGED <<vmb, camera, engineIdle>>
    /\ UNCHANGED <<seqVars, actVars, webcam, ctorVars, opened, dev_format, camera_controller,
                   connect_report>>

\* the gain slider moved to `value` (tenths of a dB); the firmware's values
\* are in hundredths of a dB.  gain_input shows the value at once.
on_gain_slider_changed(value, actual, raises) ==
    /\ main_pc = "idle" /\ cb_pc = "idle"
    /\ ~is_running
    /\ value # ui.gain_slider
    /\ IF ~camera_controller
       THEN /\ ui' = [ui EXCEPT !.gain_slider = value, !.gain_input = value]
            /\ UNCHANGED dev_feature
       ELSE IF raises
       THEN /\ ui' = [ui EXCEPT !.gain_slider = value, !.gain_input = value,
                                !.status_label = "Failed to set Gain"]
            /\ UNCHANGED dev_feature
       ELSE LET gain_db == value * 10
                differs == actual - gain_db > GainTolerance
                           \/ gain_db - actual > GainTolerance
            IN  /\ dev_feature' = FirmwareSet("Gain", actual)
                \* self.gain_slider.setValue(int(actual * 10))
                /\ ui' = [ui EXCEPT !.gain_slider = actual \div 10,
                                    !.gain_input = value,
                                    !.status_label =
                                        AfterWrite(differs, "Warning: Gain setting not applied!")]
    /\ call' = NoCall
    /\ UNCHANGED <<vmb, camera, engineIdle>>
    /\ UNCHANGED <<seqVars, actVars, webcam, ctorVars, opened, dev_format, camera_controller,
                   connect_report>>

(***************************************************************************)
(* _apply_camera_setting_with_restart, as on_exposure_slider_changed uses  *)
(* it on the controller the widget holds (an initialized engine)           *)
(***************************************************************************)
\* the exposure slider moved to `value`: exposure_input shows it, then the
\* helper notes was_running (kept in main_op: "apply" when the stream was
\* running, "apply_idle" when not) and calls stop_stream() when it was
on_exposure_slider_changed(value) ==
    /\ main_pc = "idle"
    /\ camera
    /\ ui' = [ui EXCEPT !.exposure_input = value]
    /\ IF is_running
       THEN StopStreamEnter("apply")
       ELSE /\ main_pc' = "set_exposure"
            /\ main_op' = "apply_idle"
            /\ UNCHANGED is_running
    /\ call' = [op |-> "on_exposure_slider_changed", result |-> "pending",
                device |-> is_running, was_running |-> is_running]
    /\ UNCHANGED <<vmb, camera, current_frame, last_stored, drvVars, cbVars, capture>>
    /\ UNCHANGED <<seqVars, actVars, webcam, ctorVars, opened, deviceVars, camera_controller,
                   connect_report>>

\* the start_stream() that ends the helper when was_running: its result is
\* not looked at.  ok: cam.start_streaming returns
RestartStream(ok) ==
    IF is_running
    THEN \* "Streaming is already running."
         /\ main_pc' = "idle"
         /\ UNCHANGED <<is_running, drvVars, current_frame, last_stored>>
    ELSE IF ok /\ ~acquiring
    THEN /\ DriverStart
         /\ main_pc' = "start_set_running"
         /\ UNCHANGED <<is_running, next_frame>>
    ELSE /\ is_running' = FALSE
         /\ main_pc' = "idle"
         /\ UNCHANGED <<drvVars, current_frame, last_stored>>

\* setting_func (set_exposure): the write, the read back, the controls; then
\* the helper's tail.  actual: what the firmware holds after the write;
\* raises: the feature access raised (caught inside set_exposure)
set_exposure(actual, raises, ok) ==
    /\ main_pc = "set_exposure"
    /\ IF raises
       THEN /\ ui' = [ui EXCEPT !.status_label = "Failed to set Exposure"]
            /\ UNCHANGED dev_feature
       ELSE /\ dev_feature' = FirmwareSet("ExposureTime", actual)
            /\ ui' = [ui EXCEPT !.exposure_slider = actual,
                                !.exposure_input = actual,
                                !.status_label =
                                    AfterWrite(actual # ui.exposure_input,
                                               "Warning: Exposure setting not applied!")]
    /\ IF main_op = "apply"
       THEN RestartStream(ok)
       ELSE /\ main_pc' = "idle"
            /\ UNCHANGED <<is_running, drvVars, current_frame, last_stored>>
    /\ main_op' = "none"
    /\ call' = NoCall
    /\ UNCHANGED <<vmb, camera, cbVars, capture>>
    /\ UNCHANGED <<seqVars, actVars, webcam, ctorVars, opened, dev_format, camera_controller,
                   connect_report>>

\* the user picks entry new_format of pixel_format_combo while the stream is
\* stopped (was_running false: the helper calls set_pixel_format and nothing
\* else).  set_pixel_format assigns the controller's field and calls
\* initialize(), which returns True at "Camera already initialized."
on_pixel_format_changed(new_format) ==
    /\ main_pc = "idle" /\ cb_pc = "idle"
    /\ camera /\ vmb /\ ~is_running
    /\ new_format \in Range(Advertised(opened))
    /\ pixel_format' = new_format
    /\ ui' = [ui EXCEPT !.status_label = "Pixel format changed."]
    /\ call' = [op |-> "on_pixel_format_changed", result |-> "None", device |-> FALSE,
                new_format |-> new_format]
    /\ UNCHANGED <<vmb, camera, engineIdle>>
    /\ UNCHANGED <<seqVars, actVars, webcam, camera_id, access_mode, opened, deviceVars,
                   camera_controller, connect_report>>

(***************************************************************************)
(* The driver thread: frame delivery and _frame_handler                    *)
(***************************************************************************)
\* the driver fills a queued buffer and invokes the handler with it
frame_arrives(b, status) ==
    /\ acquiring
    /\ cb_pc = "idle"
    /\ buf_state[b] = "queued"
    /\ next_frame < MaxFrames
    /\ next_frame' = next_frame + 1
    /\ buf_data' = [buf_data EXCEPT ![b] = next_frame + 1]
    /\ buf_state' = [buf_state EXCEPT ![b] = "inflight"]
    /\ cb_pc' = "get_status"
    /\ cb_buf' = b
    /\ cb_status' = status
    /\ cb_image' = NoFrame
    /\ queue_calls' = 0
    /\ requeue_result' = "none"
    /\ UNCHANGED <<vmb, camera, is_running, current_frame, last_stored, acquiring, cb_raised,
                   mainVars, capture>>
    /\ call' = NoCall
    /\ UNCHANGED <<seqVars, actVars, webcam, cfgVars>>

\* the exceptions the driver calls raise; every one derives from Exception
IsInstance(kind, cls) == cls = "Exception" \/ kind = cls

\* the except clauses of a try statement catch an exception of this kind
Caught(clauses, kind) == \E i \in 1..Len(clauses) : IsInstance(kind, clauses[i])

\* a handler that catches only the driver's own errors around the processing
ProcessingExcept_Narrow == <<"VmbCameraError">>

\* the except clauses of the three try statements a callback runs through:
\* processing, the re-queue in finally, stop_stream's driver call
ProcessingExcept == <<"Exception">>
RequeueExcept == <<"VmbCameraError", "Exception">>
StopExcept == <<"VmbCameraError", "Exception">>

\* what propagates once a statement guarded by `clauses` ended with `kind`
\* ("none", "ok": it returned)
Propagates(clauses, kind) ==
    IF kind \in {"none", "ok"} \/ Caught(clauses, kind) THEN cb_raised ELSE kind

\* a handler whose re-queue is the last statement of the try block, not a finally
OnProcessingError_SkipsRequeue == "idle"

\* where the handler goes when its try block raises: except logs, then finally
OnProcessingError == "requeue"

\* if frame.get_status() == FrameStatus.Complete: ... elif Incomplete: ... else: ...
handler_get_status(raises) ==
    /\ cb_pc = "get_status"
    /\ cb_pc' = (IF raises # "none" THEN OnProcessingError
                 ELSE IF cb_status = "Complete" THEN "convert" ELSE "requeue")
    /\ cb_raised' = Propagates(ProcessingExcept, raises)
    /\ UNCHANGED <<vmb, camera, is_running, current_frame, last_stored, drvVars, cb_buf, cb_status,
                   cb_image, queue_calls, requeue_result, mainVars, capture>>
    /\ call' = NoCall
    /\ UNCHANGED <<seqVars, actVars, webcam, cfgVars>>

\* opencv_frame = frame.as_opencv_image(): ValueError on an incompatible format
handler_convert(raises) ==
    /\ cb_pc = "convert"
    /\ IF raises # "none"
       THEN /\ cb_pc' = OnProcessingError
            /\ UNCHANGED cb_image
       ELSE /\ cb_image' = as_opencv_image(cb_buf)
            /\ cb_pc' = "store"
    /\ cb_raised' = Propagates(ProcessingExcept, raises)
    /\ UNCHANGED <<vmb, camera, is_running, current_frame, last_stored, drvVars, cb_buf, cb_status,
                   queue_calls, requeue_result, mainVars, capture>>
    /\ call' = NoCall
    /\ UNCHANGED <<seqVars, actVars, webcam, cfgVars>>

\* with self.frame_lock: self.current_frame = opencv_frame
handler_store ==
    /\ cb_pc = "store"
    /\ current_frame' = cb_image
    /\ last_stored' = buf_data[cb_buf]
    /\ cb_pc' = "requeue"
    /\ UNCHANGED <<vmb, camera, is_running, drvVars, cb_buf, cb_status, cb_image,
                   queue_calls, requeue_result, cb_raised, mainVars, capture>>
    /\ call' = NoCall
    /\ UNCHANGED <<seqVars, actVars, webcam, cfgVars>>

\* what the handler does once cam.queue_frame(frame) has ended with `result`
AfterRequeue(result) ==
    CASE result = "ok" -> "idle"
      [] result = "VmbCameraError" -> "stop_stream"
      [] result = "Exception" -> "idle"

\* finally: cam.queue_frame(frame)
handler_requeue(result) ==
    /\ cb_pc = "requeue"
    /\ queue_calls' = queue_calls + 1
    /\ requeue_result' = result
    /\ buf_state' = (IF result = "ok" THEN [buf_state EXCEPT ![cb_buf] = "queued"]
                     ELSE buf_state)
    /\ cb_pc' = (IF result = "ok" \/ Caught(RequeueExcept, result)
                 THEN AfterRequeue(result) ELSE "idle")
    /\ cb_raised' = Propagates(RequeueExcept, result)
    /\ UNCHANGED <<vmb, camera, is_running, current_frame, last_stored, acquiring, buf_data,
                   next_frame, cb_buf, cb_status, cb_image, mainVars, capture>>
    /\ call' = NoCall
    /\ UNCHANGED <<seqVars, actVars, webcam, cfgVars>>

\* self.stop_stream() called from the except VmbCameraError branch: its guards
\* and self.is_running = False, on the driver thread
handler_stop_stream ==
    /\ cb_pc = "stop_stream"
    /\ IF ~is_running \/ ~camera
       THEN /\ cb_pc' = "idle"
            /\ UNCHANGED is_running
       ELSE /\ is_running' = FALSE
            /\ cb_pc' = "stop_streaming"
    /\ UNCHANGED <<vmb, camera, current_frame, last_stored, drvVars, cb_buf, cb_status, cb_image,
                   queue_calls, requeue_result, cb_raised, mainVars, capture>>
    /\ call' = NoCall
    /\ UNCHANGED <<seqVars, actVars, webcam, cfgVars>>

\* cam.stop_streaming() on the driver thread, inside the callback: it returns,
\* raises, or never returns (the driver waits for the callback to end)
handler_stop_streaming(result) ==
    /\ cb_pc = "stop_streaming"
    /\ IF result = "ok" THEN DriverStop ELSE UNCHANGED <<acquiring, buf_state>>
    /\ cb_pc' = "stop_clear"
    /\ cb_raised' = Propagates(StopExcept, result)
    /\ UNCHANGED <<vmb, camera, is_running, current_frame, last_stored, buf_data, next_frame,
                   cb_buf, cb_status, cb_image, queue_calls, requeue_result,
                   mainVars, capture>>
    /\ call' = NoCall
    /\ UNCHANGED <<seqVars, actVars, webcam, cfgVars>>

\* finally of stop_stream, then the handler returns
handler_stop_clear ==
    /\ cb_pc = "stop_clear"
    /\ current_frame' = NoFrame
    /\ last_stored' = 0
    /\ cb_pc' = "idle"
    /\ UNCHANGED <<vmb, camera, is_running, drvVars, cb_buf, cb_status, cb_image,
                   queue_calls, requeue_result, cb_raised, mainVars, capture>>
    /\ call' = NoCall
    /\ UNCHANGED <<seqVars, actVars, webcam, cfgVars>>

(***************************************************************************)
(* ActuatorController: the serial link to the actuator                     *)
(***************************************************************************)
\* positions along the X axis, as GET_POS reports them and get_position
\* parses them
MaxPos == 2
PosName(i) == ToString(i) \o ",0,0"
HOME_POSITION == PosName(0)

\* no call of move_to, home or stop is in progress
NoMotion == [pc |-> "idle", op |-> "none", target |-> "None",
             stop_pc |-> "idle", stopped |-> FALSE, reported |-> "None"]

\* the actuator at rest at its home position
AtHome == [pos |-> 0, busy |-> FALSE, goal |-> 0]

\* ActuatorController(): no port given, nothing open
ActInit ==
    /\ port = "None"
    /\ connection = "None"
    /\ connected = FALSE
    /\ current_position = "None"
    /\ is_moving = FALSE
    /\ motion = NoMotion
    /\ actuator = AtHome

\* serial ports a machine has, by device name; the description of COM2
\* contains "ACTUATOR"
Ports == {"COM1", "COM2"}
IsActuatorPort(p) == p = "COM2"

\* what the device at the other end answers to a command within the timeout:
\* nothing ("None"), the actuator's identification, another device's
Replies == {"None", "TOSCA_ACTUATOR v1.0", "GENERIC v2"}

\* "TOSCA" in response
HasTosca(response) == response = "TOSCA_ACTUATOR v1.0"

\* self.connected and self.connection is not None and self.connection.is_open
ActuatorIsConnected(conn) == connected /\ conn = "open"

\* _send_command: None without a write unless is_connected(), else the reply
SendCommand(conn, reply) ==
    IF ActuatorIsConnected(conn)
    THEN [sent |-> TRUE, response |-> reply]
    ELSE [sent |-> FALSE, response |-> "None"]

\* list_ports.comports(): the first port whose description names the actuator
AutoDetect(comports) ==
    IF \E p \in comports : IsActuatorPort(p)
    THEN CHOOSE p \in comports : IsActuatorPort(p)
    ELSE "None"

\* ActuatorController(port)
ActuatorController(p) ==
    /\ port' = p
    /\ connection' = "None"
    /\ connected' = FALSE
    /\ current_position' = "None"
    /\ is_moving' = FALSE
    /\ call' = [op |-> "ActuatorController", result |-> "None", device |-> FALSE]
    /\ UNCHANGED <<seqVars, camVars, cfgVars, webcam, motionVars>>

\* connect(port=arg); comports: the ports the machine lists; opens:
\* serial.Serial(...) returns (else SerialException); idn, pos: the device's
\* replies to *IDN? and GET_POS
connect(arg, comports, opens, idn, pos) ==
    LET given == IF arg # "None" THEN arg ELSE port
        target == IF given = "None" THEN AutoDetect(comports) ELSE given
        verify == SendCommand("open", idn)
        verified == verify.response # "None" /\ HasTosca(verify.response)
        result == target # "None" /\ opens /\ verified
    IN  /\ port' = target
        /\ connection' = (IF result THEN "open" ELSE
                          IF target = "None" THEN connection ELSE "None")
        /\ connected' = (connected \/ result)
        \* self.current_position = self.get_position()
        /\ current_position' = (IF result /\ pos # "None" THEN pos ELSE current_position)
        /\ call' = [op |-> "connect", result |-> IF result THEN "True" ELSE "False",
                    device |-> (target # "None"), arg |-> arg, comports |-> comports,
                    target |-> target, opens |-> opens,
                    sent |-> (target # "None" /\ opens /\ verify.sent), idn |-> idn]
        /\ UNCHANGED is_moving
        /\ UNCHANGED <<seqVars, camVars, cfgVars, webcam, motionVars>>

\* disconnect(): True at once without a connection object; else close it
disconnect ==
    /\ connection' = "None"
    /\ connected' = (IF connection = "None" THEN connected ELSE FALSE)
    /\ is_moving' = (IF connection = "None" THEN is_moving ELSE FALSE)
    /\ call' = [op |-> "disconnect", result |-> "True", device |-> (connection # "None")]
    /\ UNCHANGED <<port, current_position>>
    /\ UNCHANGED <<seqVars, camVars, cfgVars, webcam, motionVars>>

\* is_connected()
ActuatorController_is_connected ==
    /\ call' = [op |-> "is_connected",
                result |-> IF ActuatorIsConnected(connection) THEN "True" ELSE "False",
                device |-> FALSE]
    /\ UNCHANGED <<seqVars, camVars, cfgVars, actVars, webcam>>

(***************************************************************************)
(* ActuatorController: motion (move_to, home) and stop() on two threads    *)
(***************************************************************************)
\* get_position(): the position GET_POS reports; None when not connected or
\* without an answer
GetPosition(answers) ==
    IF ActuatorIsConnected(connection) /\ answers THEN PosName(actuator.pos) ELSE "None"

\* move_to and home under motion_lock: is_moving = True, the command; with
\* "OK" the thread enters its wait, otherwise is_moving = False and False
BeginMotion(op, goal, target, ok) ==
    IF ok
    THEN /\ is_moving' = TRUE
         /\ actuator' = [pos |-> actuator.pos, busy |-> (goal # actuator.pos), goal |-> goal]
         /\ motion' = [motion EXCEPT !.pc = "wait", !.op = op, !.target = target,
                                     !.stopped = FALSE]
         /\ call' = NoCall
    ELSE /\ is_moving' = FALSE
         /\ call' = [op |-> op, result |-> "False", device |-> TRUE]
         /\ UNCHANGED motionVars

\* move_to(x): False at once unless is_connected(); the position is fetched
\* when none is known (answers: GET_POS is answered); ack: the actuator
\* answers MOVE with "OK"
ActuatorController_move_to(x, answers, ack) ==
    /\ motion.pc = "idle"
    /\ IF ~ActuatorIsConnected(connection)
       THEN /\ call' = [op |-> "move_to", result |-> "False", device |-> FALSE]
            /\ UNCHANGED <<current_position, is_moving, motionVars>>
       ELSE LET cur == IF current_position = "None" THEN GetPosition(answers)
                       ELSE current_position
            IN  /\ current_position' = cur
                /\ BeginMotion("move_to", x, PosName(x), cur # "None" /\ ack)
    /\ UNCHANGED <<port, connection, connected>>
    /\ UNCHANGED <<seqVars, camVars, cfgVars, webcam>>

\* home(): False at once unless is_connected(); ack: HOME is answered "OK"
ActuatorController_home(ack) ==
    /\ motion.pc = "idle"
    /\ IF ~ActuatorIsConnected(connection)
       THEN /\ call' = [op |-> "home", result |-> "False", device |-> FALSE]
            /\ UNCHANGED <<is_moving, motionVars>>
       ELSE BeginMotion("home", 0, HOME_POSITION, ack)
    /\ UNCHANGED <<port, connection, connected, current_position>>
    /\ UNCHANGED <<seqVars, camVars, cfgVars, webcam>>

\* one round of "while self._is_actuator_busy()" and what follows the loop:
\* busy only when IS_BUSY? is answered "BUSY" (answers; no answer counts as
\* not busy); timeout: the wait has lasted longer than max_wait_sec
wait_motion(answers, timeout) ==
    /\ motion.pc = "wait"
    /\ LET busy == ActuatorIsConnected(connection) /\ answers /\ actuator.busy
       IN  IF busy /\ ~timeout
           THEN /\ call' = NoCall
                /\ UNCHANGED <<current_position, is_moving, motion>>
           ELSE /\ current_position' = (IF busy THEN current_position ELSE motion.target)
                /\ is_moving' = FALSE
                /\ motion' = [motion EXCEPT !.pc = "idle"]
                /\ call' = [op |-> motion.op, result |-> IF busy THEN "False" ELSE "True",
                            device |-> TRUE]
    /\ UNCHANGED <<port, connection, connected, actuator>>
    /\ UNCHANGED <<seqVars, camVars, cfgVars, webcam>>

\* stop(), first half: False at once unless is_connected(); STOP is sent
\* without motion_lock, is_moving = False; ack: the actuator stops and
\* answers "OK", else False is returned
ActuatorController_stop(ack) ==
    /\ motion.stop_pc = "idle"
    /\ IF ~ActuatorIsConnected(connection)
       THEN /\ call' = [op |-> "stop", result |-> "False", device |-> FALSE]
            /\ UNCHANGED <<is_moving, motionVars>>
       ELSE /\ is_moving' = FALSE
            /\ actuator' = [actuator EXCEPT !.busy = IF ack THEN FALSE ELSE @]
            /\ motion' = [motion EXCEPT !.stop_pc = IF ack THEN "sent" ELSE "idle",
                                        !.stopped = (motion.pc = "wait"),
                                        !.reported = "None"]
            /\ call' = IF ack THEN NoCall
                       ELSE [op |-> "stop", result |-> "False", device |-> TRUE]
    /\ UNCHANGED <<port, connection, connected, current_position>>
    /\ UNCHANGED <<seqVars, camVars, cfgVars, webcam>>

\* stop(), second half: self.current_position = self.get_position(); True
stop_get_position(answers) ==
    /\ motion.stop_pc = "sent"
    /\ current_position' = GetPosition(answers)
    /\ motion' = [motion EXCEPT !.stop_pc = "idle", !.reported = GetPosition(answers)]
    /\ call' = [op |-> "stop", result |-> "True", device |-> TRUE]
    /\ UNCHANGED <<port, connection, connected, is_moving, actuator>>
    /\ UNCHANGED <<seqVars, camVars, cfgVars, webcam>>

\* the actuator travels one position towards its goal
actuator_moves ==
    /\ actuator.busy
    /\ LET next == IF actuator.goal > actuator.pos THEN actuator.pos + 1
                   ELSE actuator.pos - 1
       IN  actuator' = [pos |-> next, busy |-> (next # actuator.goal), goal |-> actuator.goal]
    /\ call' = NoCall
    /\ UNCHANGED <<port, connection, connected, current_position, is_moving, motion>>
    /\ UNCHANGED <<seqVars, camVars, cfgVars, webcam>>

(***************************************************************************)
(* image_processing CameraController: streaming on a thread of its own     *)
(***************************************************************************)
\* the threads start_stream can create
Threads == 1 .. MaxThreads

\* CameraController(): no capture device, no stream, no frame, no thread
WebInit ==
    webcam = [camera |-> FALSE, is_running |-> FALSE, stream_thread |-> 0,
              current_frame |-> 0, pc |-> "idle", op |-> "none",
              threads |-> [t \in Threads |-> "unborn"]]

\* what a method of CameraController returned
WebCall(op, result) == [op |-> op, result |-> result, device |-> FALSE]

\* initialize(): the capture device opens and delivers a test frame, or not
CameraController_initialize(opens) ==
    /\ webcam.pc = "idle"
    /\ webcam' = [webcam EXCEPT !.camera = opens]
    /\ call' = WebCall("CameraController.initialize", IF opens THEN "True" ELSE "False")
    /\ UNCHANGED <<seqVars, camVars, cfgVars, actVars>>

\* start_stream(): True at once while is_running; False without an open
\* camera; else is_running = True and a new daemon thread is started
CameraController_start_stream ==
    /\ webcam.pc = "idle"
    /\ IF webcam.is_running
       THEN /\ call' = WebCall("CameraController.start_stream", "True")
            /\ UNCHANGED webcam
       ELSE IF ~webcam.camera
       THEN /\ call' = WebCall("CameraController.start_stream", "False")
            /\ UNCHANGED webcam
       ELSE /\ \E t \in Threads : webcam.threads[t] = "unborn"
            /\ LET t == CHOOSE u \in Threads : webcam.threads[u] = "unborn"
               IN  webcam' = [webcam EXCEPT !.is_running = TRUE, !.stream_thread = t,
                                            !.threads[t] = "check"]
            /\ call' = WebCall("CameraController.start_stream", "True")
    /\ UNCHANGED <<seqVars, camVars, cfgVars, actVars>>

\* stop_stream() up to the join, entered from stop_stream or from release:
\* is_running = False, then stream_thread.join(timeout=1.0)
StopStream(op) ==
    webcam' = [webcam EXCEPT !.is_running = FALSE,
                             !.pc = IF webcam.stream_thread # 0 THEN "join" ELSE "idle",
                             !.op = IF webcam.stream_thread # 0 THEN op ELSE "none"]

\* stop_stream(): True at once unless is_running
CameraController_stop_stream ==
    /\ webcam.pc = "idle"
    /\ IF ~webcam.is_running
       THEN /\ call' = WebCall("CameraController.stop_stream", "True")
            /\ UNCHANGED webcam
       ELSE /\ StopStream("stop_stream")
            /\ call' = NoCall
    /\ UNCHANGED <<seqVars, camVars, cfgVars, actVars>>

\* release(): stop_stream() if is_running, then camera.release(), camera = None
CameraController_release ==
    /\ webcam.pc = "idle"
    /\ IF webcam.is_running
       THEN /\ StopStream("release")
            /\ call' = NoCall
       ELSE /\ webcam' = [webcam EXCEPT !.camera = FALSE]
            /\ call' = WebCall("CameraController.release", "True")
    /\ UNCHANGED <<seqVars, camVars, cfgVars, actVars>>

\* stream_thread.join(timeout=1.0) returns: the thread has ended, or (timeout)
\* the second has passed while the thread is inside camera.read() on an open
\* capture device; then
\* stream_thread = None and stop_stream returns True; release goes on to drop
\* the camera
join(timeout) ==
    /\ webcam.pc = "join"
    /\ IF timeout
       THEN webcam.threads[webcam.stream_thread] = "read" /\ webcam.camera
       ELSE webcam.threads[webcam.stream_thread] = "done"
    /\ webcam' = [webcam EXCEPT !.stream_thread = 0, !.pc = "idle", !.op = "none",
                                !.camera = IF webcam.op = "release" THEN FALSE ELSE @]
    /\ call' = [op |-> "CameraController." \o webcam.op, result |-> "True",
                device |-> FALSE, timeout |-> timeout]
    /\ UNCHANGED <<seqVars, camVars, cfgVars, actVars>>

\* _stream_function on thread t: "while self.is_running"
_stream_function_while(t) ==
    /\ webcam.threads[t] = "check"
    /\ webcam' = [webcam EXCEPT !.threads[t] = IF webcam.is_running THEN "read" ELSE "done"]
    /\ call' = NoCall
    /\ UNCHANGED <<seqVars, camVars, cfgVars, actVars>>

\* _stream_function on thread t: camera.read() returns; a frame (ret, with a
\* camera to read from) is stored under frame_lock; a failed read, or the
\* exception of reading from None, is logged; back to the loop test
_stream_function_read(t, ret) ==
    /\ webcam.threads[t] = "read"
    /\ webcam' = [webcam EXCEPT !.threads[t] = "check",
                                !.current_frame = IF webcam.camera /\ ret THEN t ELSE @]
    /\ call' = NoCall
    /\ UNCHANGED <<seqVars, camVars, cfgVars, actVars>>

(***************************************************************************)
(* Specifications                                                          *)
(***************************************************************************)
Init == SeqInit /\ CamInit /\ ActInit /\ WebInit

\* the values the operator types into the loop-count spin box
LoopCounts == {1, MaxLoop}

\* the run engine: connection, edits of the program, run, tick, stop
SeqNext ==
    \/ \E ok \in BOOLEAN : connect_disconnect(ok)
    \/ stop
    \/ \E step \in RunSteps : add_step(step)
    \/ \E row \in Rows : delete_step(row)
    \/ clear_sequence
    \/ \E row \in Rows : move_step_up(row)
    \/ \E row \in Rows : move_step_down(row)
    \/ toggle_loop_check
    \/ \E v \in LoopCounts : set_loop_count_spin(v)
    \/ run_sequence
    \/ \E ok \in BOOLEAN : _execute_sequence_step(ok)
    \/ \E ok \in BOOLEAN : stop_sequence(ok)
    \/ \E d \in DocPool : load_sequence(d, "none")

SpecSequence == Init /\ [][SeqNext]_vars

\* the steps of the program documents
ProgSteps ==
    { StepAction("MOVE_ABSOLUTE", [position |-> 100, speed |-> 10, unit |-> "mm"]),
      StepAction("MOVE_RELATIVE", [distance |-> 5, speed |-> 10, unit |-> "mm"]),
      StepAction("PAUSE", [duration |-> 2]) }

\* the program and its document: edits, loop settings, save, load of the saved file
ProgNext ==
    \/ \E ok \in BOOLEAN : connect_disconnect(ok)
    \/ \E step \in ProgSteps : add_step(step)
    \/ \E row \in Rows : delete_step(row)
    \/ clear_sequence
    \/ \E row \in Rows : move_step_up(row)
    \/ \E row \in Rows : move_step_down(row)
    \/ toggle_loop_check
    \/ \E v \in LoopCounts : set_loop_count_spin(v)
    \/ \E written \in BOOLEAN : save_sequence(written)
    \/ disk # NoFile /\ load_sequence(disk, "none")

SpecProgram == Init /\ [][ProgNext]_vars

\* run_sequence requested while no run is in progress
run_sequence_idle == ~running /\ run_sequence

\* a run that is left to run: the program is built (and may grow), the session
\* is opened and closed, a run is requested while idle, the timer ticks
RunNext ==
    \/ \E ok \in BOOLEAN : connect_disconnect(ok)
    \/ \E step \in RunSteps : add_step(step)
    \/ toggle_loop_check
    \/ \E v \in LoopCounts : set_loop_count_spin(v)
    \/ run_sequence_idle
    \/ \E ok \in BOOLEAN : _execute_sequence_step(ok)

\* execute_timer fires every 100 ms while it is active
TimerFires == WF_vars(\E ok \in BOOLEAN : _execute_sequence_step(ok))

SpecRun == Init /\ [][RunNext]_vars /\ TimerFires

\* a run and the emergency stop
EStopNext ==
    \/ \E ok \in BOOLEAN : connect_disconnect(ok)
    \/ \E step \in RunSteps : add_step(step)
    \/ toggle_loop_check
    \/ \E v \in LoopCounts : set_loop_count_spin(v)
    \/ run_sequence
    \/ \E ok \in BOOLEAN : _execute_sequence_step(ok)
    \/ \E ok \in BOOLEAN : stop_sequence(ok)
    \/ _on_emergency_stop
    \/ \E ok \in BOOLEAN : _shutdown_hardware(ok)

SpecEStop == Init /\ [][EStopNext]_vars

\* a stream and the exposure slider of the widget that holds the engine
RestartNext ==
    \/ \E cams \in {<<"DEV_A">>}, fault \in {"none"} : initialize(cams, fault)
    \/ \E ok \in BOOLEAN : start_stream(ok)
    \/ start_set_running
    \/ stop_stream
    \/ \E ok \in BOOLEAN : stop_streaming(ok)
    \/ stop_clear
    \/ \E value \in FeatureValues("ExposureTime") : on_exposure_slider_changed(value)
    \/ \E actual \in FeatureValues("ExposureTime"), raises, ok \in BOOLEAN :
           set_exposure(actual, raises, ok)
    \/ \E b \in Buffers, status \in FrameStatus : frame_arrives(b, status)
    \/ \E raises \in {"none"} : handler_get_status(raises)
    \/ \E raises \in {"none"} : handler_convert(raises)
    \/ handler_store
    \/ \E result \in {"ok"} : handler_requeue(result)

SpecRestart == Init /\ [][RestartNext]_vars

\* the program, its loop settings, and loads that succeed or fail
LoadNext ==
    \/ \E ok \in BOOLEAN : connect_disconnect(ok)
    \/ \E step \in ProgSteps : add_step(step)
    \/ \E row \in Rows : delete_step(row)
    \/ toggle_loop_check
    \/ \E v \in LoopCounts : set_loop_count_spin(v)
    \/ \E d \in DocPool, fault \in LoadFaults \cup {"none"} : load_sequence(d, fault)

SpecLoad == Init /\ [][LoadNext]_vars

\* the frame engine: the GUI thread's operations and the driver thread
CamNext ==
    \/ \E cams \in {<<>>, <<"DEV_A">>}, fault \in {"none", "open"} : initialize(cams, fault)
    \/ release
    \/ release_drop
    \/ \E ok \in BOOLEAN : start_stream(ok)
    \/ start_set_running
    \/ start_stream_again
    \/ stop_stream
    \/ \E ok \in BOOLEAN : stop_streaming(ok)
    \/ stop_clear
    \/ \E got \in BOOLEAN : capture_frame(got)
    \/ get_current_frame
    \/ \E b \in Buffers, status \in FrameStatus : frame_arrives(b, status)
    \/ \E raises \in {"none", "VmbCameraError"} : handler_get_status(raises)
    \/ \E raises \in {"none", "ValueError"} : handler_convert(raises)
    \/ handler_store
    \/ \E result \in {"ok", "VmbCameraError", "Exception"} : handler_requeue(result)
    \/ handler_stop_stream
    \/ \E result \in {"ok", "VmbCameraError"} : handler_stop_streaming(result)
    \/ handler_stop_clear

SpecCamera == Init /\ [][CamNext]_vars

\* the camera ids, pixel formats and enumerations the engine is exercised with
CameraIds == {"None", "DEV_X"}
PreferredFormats == {"Mono8", "Bgr8"}
Enumerations == {<<>>, <<"DEV_A">>, <<"DEV_A", "DEV_B">>}
InitFaults == {"none", "enumerate", "access_mode", "open"}

\* the features written and read, and the settings documents loaded
EngineFeatures == {"Gain", "ExposureAuto"}
SettingsFiles == {[format |-> "BayerRG8", features |-> FactoryFeatures]}

\* the engine's methods as called from one thread, no frame being delivered
EngineNext ==
    \/ \E id \in CameraIds, pf \in PreferredFormats : VMPyCameraController(id, pf, "Full")
    \/ \E cams \in Enumerations, fault \in InitFaults : initialize(cams, fault)
    \/ release
    \/ release_drop
    \/ \E ok \in BOOLEAN : start_stream(ok)
    \/ start_set_running
    \/ start_stream_again
    \/ stop_stream
    \/ \E ok \in BOOLEAN : stop_streaming(ok)
    \/ stop_clear
    \/ \E got \in BOOLEAN : capture_frame(got)
    \/ \E raises \in BOOLEAN : get_available_pixel_formats(raises)
    \/ \E raises \in BOOLEAN : save_settings(raises)
    \/ \E file \in SettingsFiles, raises, pf_raises \in BOOLEAN :
            load_settings(file, raises, pf_raises)
    \/ \E f \in EngineFeatures, raises \in BOOLEAN : get_feature_value(f, raises)
    \/ \E new_format \in {"BayerRG8", "Bgr8"} : on_pixel_format_changed(new_format)
    \/ \E f \in EngineFeatures, raises \in BOOLEAN :
            \E value, actual \in FeatureValues(f) : set_feature_value(f, value, actual, raises)

SpecEngine == Init /\ [][EngineNext]_vars

\* the camera widget: connecting, disconnecting and the feature controls
AccessModes == {"Full", "Read"}
GainSteps == {0, 49, 50}

WidgetNext ==
    \/ \E id \in {"None"} \cup Devices, mode \in AccessModes, cams \in Enumerations,
          fault \in InitFaults, fmt_raises \in BOOLEAN :
            on_connect_camera(id, mode, cams, fault, fmt_raises)
    \/ on_disconnect_camera
    \/ \E state \in BOOLEAN, actual \in FeatureValues("ExposureAuto"), raises \in BOOLEAN :
            on_exposure_auto_changed(state, actual, raises)
    \/ \E value \in GainSteps, actual \in FeatureValues("Gain"), raises \in BOOLEAN :
            on_gain_slider_changed(value, actual, raises)

SpecWidget == Init /\ [][WidgetNext]_vars

\* the actuator controller on its own: construction, connect, disconnect
ActuatorNext ==
    \/ \E p \in {"None"} \cup Ports : ActuatorController(p)
    \/ \E arg \in {"None"} \cup Ports, comports \in SUBSET Ports, opens \in BOOLEAN,
          idn \in Replies, pos \in {"None", "POS X:0.00 Y:0.00 Z:0.00"} :
            connect(arg, comports, opens, idn, pos)
    \/ disconnect
    \/ ActuatorController_is_connected

SpecActuator == Init /\ [][ActuatorNext]_vars

\* no connect leaves the widget with a controller
NeverConnected == ~camera_controller

\* a controller whose session is up: the state the success branch of
\* connect() establishes (connected = True, the position read with GET_POS),
\* which move_to, home and stop require before they do anything
EstablishedSession ==
    /\ port = "COM2"
    /\ connection = "open"
    /\ connected = TRUE
    /\ current_position = PosName(0)
    /\ is_moving = FALSE
    /\ motion = NoMotion
    /\ actuator = AtHome

\* one thread in move_to/home, another in stop(), the actuator travelling
MotionNext ==
    \/ \E x \in 0 .. MaxPos, answers \in BOOLEAN, ack \in BOOLEAN :
            ActuatorController_move_to(x, answers, ack)
    \/ \E ack \in BOOLEAN : ActuatorController_home(ack)
    \/ \E answers \in BOOLEAN, timeout \in BOOLEAN : wait_motion(answers, timeout)
    \/ \E ack \in BOOLEAN : ActuatorController_stop(ack)
    \/ \E answers \in BOOLEAN : stop_get_position(answers)
    \/ actuator_moves

MotionInit == SeqInit /\ CamInit /\ EstablishedSession /\ WebInit

SpecMotion == MotionInit /\ [][MotionNext]_vars

\* CameraController used from one thread, its stream threads running
StreamNext ==
    \/ \E opens \in BOOLEAN : CameraController_initialize(opens)
    \/ CameraController_start_stream
    \/ CameraController_stop_stream
    \/ CameraController_release
    \/ \E timeout \in BOOLEAN : join(timeout)
    \/ \E t \in Threads : _stream_function_while(t)
    \/ \E t \in Threads, ret \in BOOLEAN : _stream_function_read(t, ret)

SpecStream == Init /\ [][StreamNext]_vars

(***************************************************************************)
(* Properties of the stream threads (SpecStream)                           *)
(***************************************************************************)
\* the _stream_function threads that have not ended
LiveThreads == {t \in Threads : webcam.threads[t] \in {"check", "read"}}

\* C39: at most one acquisition thread is alive, so at most one writes
\* current_frame; whenever no call is in progress and is_running is false
\* (nothing was started, or stop_stream or release has returned) no stream
\* thread is left, so a later start_stream or release runs alongside none.
C39_OneStreamThread ==
    /\ Cardinality(LiveThreads) <= 1
    /\ (webcam.pc = "idle" /\ ~webcam.is_running) => LiveThreads = {}

IsPrefix(s, t) == Len(s) <= Len(t) /\ \A i \in 1..Len(s) : s[i] = t[i]

\* indices 0..n-1 in order, L times
ProgramOrder(n, L) == [i \in 1..(n * L) |-> (i - 1) % n]

\* the loop count in effect for the run: 1 when looping was disabled at the request
EffectiveLoops == IF loop_enabled THEN loop_count ELSE 1

\* C4: in a run of n steps with effective loop count L in which no step fails
\* and no stop, disconnect or edit occurs, the steps executed so far are a
\* prefix of 0..n-1 repeated L times; the tick source stays armed while the run
\* is active; and once the run is over (running false) exactly the n*L steps
\* were executed, the timer is stopped and nothing more is executed.
C4_ProgramOrder ==
    clean =>
        LET e == ProgramOrder(Len(current_sequence), EffectiveLoops)
        IN  /\ IsPrefix(log, e)
            /\ running => execute_timer
            /\ ~running => (log = e /\ ~execute_timer)

C4_Witness ==
    /\ clean /\ ~running /\ ~execute_timer
    /\ Len(current_sequence) = 3
    /\ loop_enabled /\ loop_count = 2
    /\ log = <<0, 1, 2, 0, 1, 2>>

\* C5: once stop_sequence was invoked during a run the engine is idle (running
\* false) and no further step of the run is executed.
C5_StopHaltsRun ==
    [][ /\ stopped' => ~running'
        /\ (stopped /\ stopped') => log' = log ]_vars

\* C6: while a run is in progress the step sequence is not changed by any
\* operation (every program mutation is rejected).
C6_NoEditWhileRunning == [][ running => current_sequence' = current_sequence ]_vars

\* C7: when the command of step i fails, running is false and the timer is
\* stopped, the failure is reported exactly once, step i is the last step
\* executed, and nothing more is executed (no retry, no later step) until a
\* new run is requested.
C7_FailureHalts ==
    [][ /\ failed' # -1 =>
            /\ ~running' /\ ~execute_timer'
            /\ fail_reports' = 1
            /\ log' # <<>> /\ log'[Len(log')] = failed'
        /\ (failed # -1 /\ failed' # -1) => log' = log ]_vars

C7_Witness == failed = 1 /\ Len(log) = 5 /\ ~running

\* C11: stop_sequence invoked during a run always leaves running false, also
\* when the hardware stop-motion command (stopMovements) fails.
C11_StopAlwaysClearsRunning == stopped => ~running

\* C17: closing the actuator session while a run is active takes the run's stop
\* path first: when the connection is dropped the tick timer is stopped and
\* running is false.
C17_CloseStopsRun ==
    [][ (is_connected /\ ~is_connected') => (~running' /\ ~execute_timer') ]_vars

\* position of the cursor in program order
Position(loop, index) == loop * Len(current_sequence) + index

\* C22: every tick taken while a run is active (running, connected) executes
\* exactly one step, and when the run goes on the cursor has advanced by one
\* position; no tick moves the cursor or ends the run without executing a step.
C22_OneStepPerTick ==
    [][ (running /\ is_connected /\ \E ok \in BOOLEAN : _execute_sequence_step(ok))
          => /\ Len(log') = Len(log) + 1
             /\ running' => Position(current_loop', current_step_index')
                                = Position(current_loop, current_step_index) + 1 ]_vars

\* C23: the number of passes is fixed by run_sequence: one when the loop box
\* is unchecked, the spin box's value (at least 1) when it is checked; nothing
\* but a new request changes it while the run is in progress, and a run that
\* ends without failure, stop, disconnect or edit has executed exactly that
\* many passes, whatever the loop widgets were set to meanwhile.
C23_PassesFixedAtRequest ==
    [][ /\ (running' /\ log' = <<>> /\ run_sequence)
              => /\ loop_enabled' = loop_check
                 /\ loop_count' = (IF loop_check THEN loop_count_spin ELSE 1)
                 /\ loop_count' >= 1
        /\ (running /\ (loop_enabled' # loop_enabled \/ loop_count' # loop_count))
              => run_sequence
        /\ (clean' /\ ~running')
              => Len(log') = loop_count' * Len(current_sequence') ]_vars

\* a run requested for MaxLoop passes is beyond its first pass although the
\* loop widgets were set to no looping and a count of 1 after the request
C23_Witness ==
    /\ running /\ clean
    /\ loop_enabled /\ loop_count = MaxLoop
    /\ ~loop_check /\ loop_count_spin = 1
    /\ Len(log) > Len(current_sequence)

\* C25: a tick executes a step only while the session is open (is_connected
\* true, axis handle held), and once the session was closed during a run the
\* next tick executes no step and ends the run: running false, timer stopped.
C25_NoStepWithoutSession ==
    [][ (\E ok \in BOOLEAN : _execute_sequence_step(ok))
          => /\ log' # log => (is_connected /\ axis)
             /\ dropped => (log' = log /\ ~running' /\ ~execute_timer') ]_vars

\* C28: a tick that fetches a step (it executes one, or fails fetching it)
\* fetches inside the program: the index it uses is in
\* 0 .. Len(current_sequence) - 1 and the pass it is in is in
\* 0 .. loop_count - 1, whatever edits came between the ticks.
C28_FetchInRange ==
    [][ ((log' # log \/ crashed') /\ \E ok \in BOOLEAN : _execute_sequence_step(ok))
          => /\ ~crashed'
             /\ log'[Len(log')] \in 0 .. (Len(current_sequence) - 1)
             /\ current_loop' \in 0 .. (loop_count - 1) ]_vars

\* C29: a stop-motion command issued while a sequence is running, by
\* stop_sequence or by the manual STOP button, halts the sequence with it: the
\* tick timer is off when the handler returns, so that no tick executes a step
\* until run_sequence starts a new run (only run_sequence starts the timer).
C29_StopMotionHaltsRun ==
    [][ /\ (running /\ execute_timer /\ (stop \/ \E ok \in BOOLEAN : stop_sequence(ok)))
              => ~execute_timer'
        /\ (~execute_timer /\ execute_timer') => run_sequence ]_vars

\* C30: a run_sequence made while a run is in progress neither restarts nor
\* duplicates it: the cursor (current_step_index, current_loop) stays where it
\* is and the one tick timer stays active.
C30_NoRestartWhileRunning ==
    [][ (running /\ execute_timer /\ run_sequence)
          => /\ current_step_index' = current_step_index
             /\ current_loop' = current_loop
             /\ execute_timer' ]_vars

C32_EmergencyStopHalts ==
    [][ /\ (estop = "dialog" /\ \E ok \in BOOLEAN : _execute_sequence_step(ok))
              => log' = log
        /\ (running /\ \E ok \in BOOLEAN : _shutdown_hardware(ok))
              => (~is_connected' /\ dropped')
        /\ (dropped /\ \E ok \in BOOLEAN : _execute_sequence_step(ok))
              => (log' = log /\ ~running') ]_vars

(***************************************************************************)
(* Properties of the program document (SpecProgram)                        *)
(***************************************************************************)
\* C8: right after load_sequence has loaded the document save_sequence wrote,
\* the program's steps (types, parameters, order) and the loop settings shown
\* equal those of the program that was saved, whatever the widget held before.
C8_RoundTrip ==
    loaded =>
        /\ current_sequence = saved_program.sequence
        /\ loop_check = saved_program.loop_enabled
        /\ loop_count_spin = saved_program.loop_count

C8_Witness ==
    /\ loaded
    /\ Len(current_sequence) = 3
    /\ \E i, j \in 1..3 : current_sequence[i].action_type # current_sequence[j].action_type
    /\ loop_check /\ loop_count_spin = MaxLoop

\* C37: a load_sequence that fails - unreadable file, malformed document,
\* invalid step entry - leaves the program (steps and order) and the loop
\* settings shown exactly as they were before the load.
C37_FailedLoadKeepsProgram ==
    [][ (\E d \in DocPool, fault \in LoadFaults : load_sequence(d, fault))
          => /\ current_sequence' = current_sequence
             /\ loop_check' = loop_check
             /\ loop_count_spin' = loop_count_spin ]_vars

(***************************************************************************)
(* Properties of the engine's methods (SpecEngine)                         *)
(***************************************************************************)
\* f in ('Bgr8', 'Mono8')
InDisplay(f) == f \in DisplayCompatible

\* C12: an initialize that reaches a device which does not advertise the
\* preferred pixel format succeeds with the first display-compatible
\* advertised format, recorded by the controller and active on the device; it
\* fails only when the device advertises no display-compatible format.
C12_FormatFallback ==
    [][ (/\ call'.op = "initialize" /\ call'.device
         /\ call'.cams # <<>> /\ call'.fault = "none"
         /\ pixel_format \notin Range(Advertised(found_cam(camera_id, call'.cams))))
        => LET dev == found_cam(camera_id, call'.cams)
               compatible == SelectSeq(Advertised(dev), InDisplay)
           IN  IF compatible = <<>>
               THEN call'.result = "False" /\ ~camera'
               ELSE /\ call'.result = "True" /\ camera'
                    /\ pixel_format' = compatible[1]
                    /\ dev_format'[dev] = compatible[1] ]_vars

\* C13: an initialize whose camera_id matches none of the enumerated devices
\* fails and leaves no session held (no other device is opened in its place),
\* and so does an initialize whose open the device refuses.
C13_NotFoundFails ==
    (call.op = "initialize" /\ call.device) =>
        /\ (camera_id # "None" /\ camera_id \notin Range(call.cams))
                => (call.result = "False" /\ ~camera /\ opened = "None")
        /\ call.fault = "open"
                => (call.result = "False" /\ ~camera /\ opened = "None")

\* the methods that need an initialized camera
GuardedOps == {"start_stream", "capture_frame", "get_feature_value",
               "set_feature_value", "save_settings", "load_settings"}

\* the state of the engine and of the devices
engineState == <<vmb, camera, is_running, current_frame, last_stored, drvVars, cbVars, mainVars,
                 ctorVars, opened, deviceVars>>

\* C14: while no camera is held (never initialized, or released) start_stream,
\* capture_frame, feature get/set and settings save/load fail without a call
\* to the driver and without changing the engine or the device; once the
\* engine was released initialize fails the same way; release and stop_stream
\* are still accepted.
C14_Lifecycle ==
    [][ /\ (~camera /\ call'.op \in GuardedOps)
            => /\ call'.result \in {"False", "None"}
               /\ ~call'.device
               /\ UNCHANGED engineState
        /\ (~camera /\ ~vmb /\ call'.op = "initialize")
            => /\ call'.result = "False"
               /\ ~call'.device
               /\ UNCHANGED engineState
        /\ (~camera /\ call'.op = "stop_stream") => call'.result = "True"
        /\ (~camera /\ call'.op = "release")
            => (call'.result = "None" /\ ~call'.device) ]_vars

\* a released engine (it had opened DEV_A with Bgr8) has just refused to start
C14_Witness ==
    /\ call = Call("start_stream", "False", FALSE)
    /\ ~camera /\ ~vmb
    /\ dev_format["DEV_A"] = "Bgr8"

\* the read-back differs from the request: by more than the tolerance for the
\* numeric Gain, at all for ExposureTime (whole microseconds) and the
\* enumerated auto modes
NotApplied(f, requested, actual) ==
    IF f = "Gain"
    THEN actual - requested > GainTolerance \/ requested - actual > GainTolerance
    ELSE actual # requested

\* C18: every feature write that the device accepted is followed by a
\* read-back, and when the value the device then holds differs from the
\* requested one a value-not-applied warning is raised and the caller is given
\* the actual value, not the requested one (nor a bare success).
C18_ReadBackVerified ==
    (call.op = "set_feature_value" /\ call.written) =>
        LET actual == dev_feature[opened][call.feature]
        IN  /\ call.read_back
            /\ NotApplied(call.feature, call.requested, actual)
                    => (call.warned /\ call.reported = Value(actual))

(***************************************************************************)
(* Properties of the frame engine (SpecCamera)                             *)
(***************************************************************************)
\* C1: every invocation of _frame_handler calls cam.queue_frame for its buffer
\* exactly once before it returns, whatever the status and whether or not the
\* status query or the conversion raises: no call before the finally block,
\* one call from there on, and a buffer the driver accepted is not left in
\* flight.
C1_RequeueExactlyOnce ==
    /\ cb_pc \in {"get_status", "convert", "store", "requeue"} => queue_calls = 0
    /\ cb_pc \in {"stop_stream", "stop_streaming", "stop_clear"} => queue_calls = 1
    /\ (cb_pc = "idle" /\ next_frame > 0) => queue_calls = 1
    /\ requeue_result = "ok" => buf_state[cb_buf] # "inflight"

\* a callback whose conversion (or status query) raised has returned, its
\* buffer re-queued
C1_Witness ==
    /\ cb_pc = "idle"
    /\ cb_status = "Complete" /\ cb_image = NoFrame
    /\ queue_calls = 1 /\ requeue_result = "ok"
    /\ buf_state[cb_buf] = "queued"

\* C2: the latest-frame slot never references a driver buffer that is queued
\* to the free pool (which the driver may fill at any time).
C2_OwnedSnapshot ==
    current_frame.kind = "view" => buf_state[current_frame.buf] # "queued"

\* C3: a capture_frame called while streaming is active issues no synchronous
\* frame request (cam.get_frame).
C3_CaptureRejectedWhileStreaming == capture.streaming => ~capture.get_frame

\* C9: the callback thread is never inside the driver's stop-streaming call
\* while the callback has not returned (the stop is deferred).
C9_StopDeferred == cb_pc # "stop_streaming"

\* C10: a callback whose re-queue failed, with whatever error, returns with
\* streaming stopped and the session held (is_running false, camera set).
C10_RequeueFailureStops ==
    [][ (cb_pc # "idle" /\ cb_pc' = "idle"
            /\ requeue_result' \in {"VmbCameraError", "Exception"})
        => (~is_running' /\ camera') ]_vars

C16_StartIdempotent ==
    [][ (is_running /\ call'.op = "start_stream")
          => (call'.result = "True" /\ ~call'.device /\ UNCHANGED engineState) ]_vars

\* a second start_stream returned while a frame was in the slot
C16_Witness ==
    /\ call = Call("start_stream", "True", FALSE)
    /\ is_running
    /\ current_frame # NoFrame

\* C19: no exception raised inside the callback - by the status query, by the
\* conversion, by the re-queue, or by the driver's stop inside the stop_stream
\* that a failed re-queue triggers - propagates out of _frame_handler.
C19_NothingEscapes == cb_raised = "none"

\* a callback returned after its re-queue failed and the stop it triggered left
\* the device acquiring
C19_Witness ==
    /\ cb_pc = "idle" /\ main_pc = "idle"
    /\ requeue_result = "VmbCameraError"
    /\ ~is_running /\ acquiring
    /\ cb_raised = "none"

\* C20: get_current_frame returns None while no complete frame has been stored
\* (or the slot was cleared), and otherwise an array of its own that equals
\* the frame a callback stored last.
C20_CopyOfLatestStored ==
    call.op = "get_current_frame" =>
        IF last_stored = 0
        THEN call.result = "None"
        ELSE /\ call.result = "frame"
             /\ call.frame = Snapshot(last_stored)

\* C24: a callback invoked with a buffer that is not Complete leaves the
\* latest-frame slot as it was, and get_current_frame never returns the data
\* of a frame that was delivered with a status other than Complete (frame
\* number next_frame is the one delivered last, with status cb_status).
C24_IncompleteDropped ==
    [][ /\ (cb_pc \in {"get_status", "convert", "store"} /\ cb_status # "Complete")
              => current_frame' = current_frame
        /\ (call'.op = "get_current_frame" /\ call'.result = "frame"
            /\ cb_status' # "Complete")
              => call'.frame.data # next_frame' ]_vars

\* C26: whenever neither thread is inside start_stream or stop_stream,
\* is_running is true exactly when the device is acquiring; this includes the
\* states after a start_stream or stop_stream that returned False because the
\* driver call failed.
C26_RunningIffAcquiring ==
    (/\ main_pc \in {"idle", "release_drop"}
     /\ cb_pc \notin {"stop_stream", "stop_streaming", "stop_clear"})
        => (is_running <=> acquiring)

\* C27: once a stop_stream has returned and no stream was started since
\* (is_running is false and neither thread is inside start_stream or
\* stop_stream), the latest-frame slot is empty and get_current_frame returns
\* None: no callback stores a frame after the slot was cleared, whichever
\* thread ran the stop and whatever it returned.
C27_EmptyAfterStop ==
    (/\ ~is_running
     /\ main_pc \in {"idle", "release_drop"}
     /\ cb_pc \notin {"stop_stream", "stop_streaming", "stop_clear"})
        => /\ current_frame = NoFrame
           /\ call.op = "get_current_frame" => call.result = "None"

C35_FormatResynchronized ==
    (call.op = "load_settings" /\ call.result = "True") =>
        pixel_format = dev_format[opened]

\* C36: initialize reports its outcome by its result, True or False, never by
\* an exception; when it has returned False no camera is held and is_running
\* is false; when it has returned True a camera is held.
C36_InitializeFailsClean ==
    call.op = "initialize" =>
        /\ call.result \in {"True", "False"}
        /\ call.result = "False" => (~camera /\ ~is_running)
        /\ call.result = "True" => camera

\* an initialize found a camera, the open raised, _cleanup ran and False was
\* returned
C36_Witness ==
    /\ call.op = "initialize" /\ call.result = "False" /\ call.device
    /\ call.cams # <<>> /\ call.fault = "open"
    /\ ~camera /\ ~vmb /\ opened = "None"

(***************************************************************************)
(* Properties of the actuator controller (SpecActuator)                    *)
(***************************************************************************)
\* C21: a connect whose serial port opens and whose device answers *IDN? with
\* a response containing TOSCA returns True and leaves is_connected() true.
C21_ConnectSucceeds ==
    (call.op = "connect" /\ call.target # "None" /\ call.opens /\ HasTosca(call.idn))
        => (call.result = "True" /\ ActuatorIsConnected(connection))

====
